-------------------------- MODULE AtomStoreProofs --------------------------
(* Proofs about AtomStore, for any entities, texts, ranks and sessions.    *)
EXTENDS AtomStore, FiniteSetTheorems, SequenceTheorems,
        WellFoundedInduction, TLAPS

(***************************************************************************)
(* The rows of the atom table.                                             *)
(***************************************************************************)

LEMMA RowType ==
    ASSUME NEW e \in Entities, NEW t \in Texts, NEW k \in Ranks
    PROVE  /\ Row(e, t, k) \in Atom
           /\ Row(e, t, k).by = None
           /\ Row(e, t, k).live
           /\ Row(e, t, k).ent = e
           /\ Row(e, t, k).rank = k
BY DEF Row, Atom, None

LEMMA RowsDomain ==
    ASSUME NEW rows, RowsOK(rows)
    PROVE  /\ Len(rows) \in Nat
           /\ DOMAIN rows = 1..Len(rows)
           /\ \A a \in DOMAIN rows : rows[a] \in Atom
           /\ None \notin DOMAIN rows
BY LenProperties, ElementOfSeq DEF RowsOK, None

(* A new row is the last one, and the others stay as they are.             *)
LEMMA RowsAppend ==
    ASSUME NEW rows, RowsOK(rows), NEW x \in Atom, x.by = None
    PROVE  /\ RowsOK(Append(rows, x))
           /\ DOMAIN Append(rows, x) = (DOMAIN rows) \cup {Len(rows) + 1}
           /\ Len(rows) + 1 \notin DOMAIN rows
           /\ Append(rows, x)[Len(rows) + 1] = x
           /\ \A a \in DOMAIN rows : Append(rows, x)[a] = rows[a]
<1> DEFINE new == Append(rows, x)
<1>1. rows \in Seq(Atom) /\ Len(rows) \in Nat /\ DOMAIN rows = 1..Len(rows)
  BY RowsDomain DEF RowsOK
<1>2. /\ new \in Seq(Atom)
      /\ Len(new) = Len(rows) + 1
      /\ new[Len(rows) + 1] = x
      /\ \A a \in 1..Len(rows) : new[a] = rows[a]
  BY <1>1
<1>3. DOMAIN new = 1..(Len(rows) + 1)
  BY <1>2, LenProperties
<1>4. DOMAIN new = (DOMAIN rows) \cup {Len(rows) + 1}
  BY <1>1, <1>3
<1>5. \A a \in DOMAIN new : new[a].by \in (DOMAIN new) \cup {None}
  BY <1>1, <1>2, <1>4 DEF RowsOK
<1> QED
  BY <1>1, <1>2, <1>4, <1>5 DEF RowsOK

(* supersede_atom changes one row, and only if it is live.                 *)
LEMMA RowsSuperseded ==
    ASSUME NEW rows, RowsOK(rows), NEW old \in DOMAIN rows, NEW new \in DOMAIN rows
    PROVE  /\ RowsOK(Superseded(rows, old, new))
           /\ DOMAIN Superseded(rows, old, new) = DOMAIN rows
           /\ \A a \in DOMAIN rows :
                /\ Superseded(rows, old, new)[a].ent = rows[a].ent
                /\ Superseded(rows, old, new)[a].rank = rows[a].rank
                /\ (a # old \/ ~rows[old].live) =>
                      Superseded(rows, old, new)[a] = rows[a]
           /\ rows[old].live =>
                /\ ~Superseded(rows, old, new)[old].live
                /\ Superseded(rows, old, new)[old].by = new
<1>1. CASE ~rows[old].live
  BY <1>1 DEF Superseded, Supersedable
<1>2. CASE rows[old].live
  <2> DEFINE x == [rows[old] EXCEPT !.live = FALSE, !.by = new]
             res == [rows EXCEPT ![old] = x]
  <2>1. /\ rows \in Seq(Atom)
        /\ DOMAIN rows = 1..Len(rows)
        /\ Len(rows) \in Nat
        /\ rows[old] \in Atom
    BY RowsDomain DEF RowsOK
  <2>2. new \in Nat
    BY <2>1
  <2>3. /\ x \in Atom
        /\ ~x.live /\ x.by = new /\ x.ent = rows[old].ent /\ x.rank = rows[old].rank
    BY <2>1, <2>2 DEF Atom
  <2>4. Superseded(rows, old, new) = res
    BY <1>2 DEF Superseded, Supersedable
  <2> HIDE DEF x
  <2>5. res \in Seq(Atom) /\ DOMAIN res = DOMAIN rows
    BY <2>1, <2>3, ExceptSeq
  <2>6. res[old] = x /\ \A a \in DOMAIN rows : a # old => res[a] = rows[a]
    BY <2>1
  <2>7. RowsOK(res)
    BY <2>3, <2>5, <2>6 DEF RowsOK
  <2> HIDE DEF res
  <2> QED
    BY <1>2, <2>3, <2>4, <2>5, <2>6, <2>7
<1> QED
  BY <1>1, <1>2

(* What superseding a live row of `rows' leaves in `res'.                  *)
SupersedeFacts(rows, old, new, res) ==
    /\ RowsOK(res)
    /\ DOMAIN res = DOMAIN rows
    /\ \A a \in DOMAIN rows :
         /\ res[a].ent = rows[a].ent
         /\ res[a].rank = rows[a].rank
         /\ a # old => res[a] = rows[a]
    /\ ~res[old].live
    /\ res[old].by = new

LEMMA RowsSupersededLive ==
    \A rows : \A old, new \in DOMAIN rows :
        RowsOK(rows) /\ rows[old].live
            => SupersedeFacts(rows, old, new, Superseded(rows, old, new))
BY RowsSuperseded DEF SupersedeFacts

(* A row that is only deprecated keeps its successor.                      *)
LEMMA RowsDeprecated ==
    ASSUME NEW rows, RowsOK(rows), NEW a \in DOMAIN rows
    PROVE  LET res == [rows EXCEPT ![a].live = FALSE]
           IN  /\ RowsOK(res)
               /\ DOMAIN res = DOMAIN rows
               /\ \A b \in DOMAIN rows :
                    /\ res[b].by = rows[b].by
                    /\ res[b].rank = rows[b].rank
<1> DEFINE x == [rows[a] EXCEPT !.live = FALSE]
           res == [rows EXCEPT ![a] = x]
<1>1. /\ rows \in Seq(Atom)
      /\ DOMAIN rows = 1..Len(rows)
      /\ Len(rows) \in Nat
      /\ rows[a] \in Atom
  BY RowsDomain DEF RowsOK
<1>2. x \in Atom /\ x.by = rows[a].by /\ x.rank = rows[a].rank
  BY <1>1 DEF Atom
<1>3. res = [rows EXCEPT ![a].live = FALSE]
  OBVIOUS
<1> HIDE DEF x
<1>4. res \in Seq(Atom) /\ DOMAIN res = DOMAIN rows
  BY <1>1, <1>2, ExceptSeq
<1>5. res[a] = x /\ \A b \in DOMAIN rows : b # a => res[b] = rows[b]
  BY <1>1
<1>6. RowsOK(res)
  BY <1>2, <1>4, <1>5 DEF RowsOK
<1> HIDE DEF res
<1> QED
  BY <1>2, <1>3, <1>4, <1>5, <1>6

(***************************************************************************)
(* Sessions.                                                               *)
(***************************************************************************)

(* What a session names stays named when the table grows.                  *)
LEMMA SessionStatesGrow ==
    ASSUME NEW I, NEW J, I \subseteq J
    PROVE  SessionState(I) \subseteq SessionState(J)
BY DEF SessionState

(* One session moves to a state of the right shape, and rows are not lost. *)
LEMMA SessionMoves ==
    ASSUME TypeOK, NEW s \in Sessions, NEW st, st \in SessionState(Ids'),
           Goto(s, st), Ids \subseteq Ids'
    PROVE  sess' \in [Sessions -> SessionState(Ids')]
<1>1. SessionState(Ids) \subseteq SessionState(Ids')
  BY SessionStatesGrow
<1> QED
  BY <1>1 DEF TypeOK, Goto

LEMMA IdleType == ASSUME NEW I PROVE Idle \in SessionState(I)
BY DEF Idle, SessionState

LEMMA LeastElement ==
    ASSUME NEW S, S \subseteq Nat, S # {}
    PROVE  \E a \in S : \A b \in S : a <= b
<1>1. PICK a \in S : \A b \in S : <<b, a>> \notin OpToRel(<, Nat)
  BY NatLessThanWellFounded, WFMin
<1>2. \A b \in S : ~(b < a)
  BY <1>1 DEF OpToRel
<1> QED
  BY <1>2

(***************************************************************************)
(* merge_entity: the migrated rows move, the others are superseded.        *)
(***************************************************************************)

LEMMA MergeKeeperIsLive ==
    ASSUME TypeOK, NEW e, NEW f, NEW a \in Live(e)
    PROVE  MergeKeeper(e, f, atoms[a].text) \in Live(e) \cup Live(f)
<1> DEFINE t == atoms[a].text
           own == {b \in Live(f) : atoms[b].text = t}
           all == IF own # {} THEN own ELSE {b \in Live(e) : atoms[b].text = t}
<1>1. all # {} /\ all \subseteq Live(e) \cup Live(f)
  OBVIOUS
<1>2. Ids \subseteq Nat
  BY RowsDomain DEF TypeOK, Ids
<1>3. all \subseteq Nat
  BY <1>1, <1>2 DEF Live
<1>4. \E b \in all : \A c \in all : b <= c
  BY <1>1, <1>3, LeastElement
<1>5. MergeKeeper(e, f, t) = CHOOSE b \in all : \A c \in all : b <= c
  BY DEF MergeKeeper
<1> HIDE DEF all
<1> QED
  BY <1>1, <1>4, <1>5

(* What a merge has read names a keeper for each live row of the source.   *)
LEMMA MergeRead ==
    ASSUME TypeOK, NEW s \in Sessions, Merge(s)
    PROVE  /\ sess[s].ent \in Entities /\ sess[s].src \in Entities
           /\ DOMAIN sess[s].keeper \subseteq Ids
           /\ \A a \in DOMAIN sess[s].keeper : sess[s].keeper[a] \in Ids
<1>1. sess[s] \in SessionState(Ids) /\ sess[s].pc = "merge"
  BY DEF Merge, TypeOK
<1>2. /\ sess[s].ent \in Entities /\ sess[s].src \in Entities
      /\ sess[s].keeper \in UNION {[S -> Ids] : S \in SUBSET Ids}
  BY <1>1 DEF SessionState
<1>3. PICK S \in SUBSET Ids : sess[s].keeper \in [S -> Ids]
  BY <1>2
<1> QED
  BY <1>2, <1>3

LEMMA MergeRows ==
    ASSUME TypeOK, NEW s \in Sessions, Merge(s)
    PROVE  RowsOK(atoms') /\ DOMAIN atoms' = Ids
<1> DEFINE w == sess[s]
<1>1. /\ RowsOK(atoms) /\ Ids = 1..Len(atoms) /\ Len(atoms) \in Nat
      /\ \A a \in Ids : atoms[a] \in Atom /\ atoms[a].by \in Ids \cup {None}
  BY RowsDomain DEF TypeOK, Ids, RowsOK
<1>2. DOMAIN atoms' = Ids
  BY DEF Merge
<1>3. ASSUME NEW a \in Ids
      PROVE  atoms'[a] \in Atom /\ atoms'[a].by \in Ids \cup {None}
  <2>1. CASE a \notin DOMAIN w.keeper
    <3>1. atoms'[a] = atoms[a]
      BY <2>1 DEF Merge
    <3> QED
      BY <1>1, <3>1
  <2>2. CASE a \in DOMAIN w.keeper /\ w.keeper[a] = a
    <3>1. atoms'[a] = [atoms[a] EXCEPT !.ent = w.ent]
      BY <2>2 DEF Merge
    <3>2. w.ent \in Entities
      BY MergeRead
    <3> HIDE DEF w
    <3> QED
      BY <1>1, <3>1, <3>2 DEF Atom
  <2>3. CASE a \in DOMAIN w.keeper /\ w.keeper[a] # a
    <3> DEFINE k == w.keeper[a]
    <3>1. atoms'[a] = [atoms[a] EXCEPT !.live = FALSE, !.by = k]
      BY <2>3 DEF Merge
    <3>2. k \in Ids
      BY <2>3, MergeRead
    <3>3. k \in Nat
      BY <1>1, <3>2
    <3> HIDE DEF k
    <3> QED
      BY <1>1, <3>1, <3>2, <3>3 DEF Atom
  <2> QED
    BY <2>1, <2>2, <2>3
<1>4. atoms' = [a \in 1..Len(atoms) |-> atoms'[a]]
  BY <1>1 DEF Merge
<1>5. atoms' \in [1..Len(atoms) -> Atom]
  BY <1>1, <1>3, <1>4
<1>6. atoms' \in Seq(Atom)
  BY <1>1, <1>5, SeqDef
<1> QED
  BY <1>2, <1>3, <1>6 DEF RowsOK

(***************************************************************************)
(* Types.                                                                  *)
(***************************************************************************)

(* A session that only reads and moves on.                                 *)
LEMMA ReadingStep ==
    ASSUME TypeOK, NEW s \in Sessions, NEW st \in SessionState(Ids), Goto(s, st),
           atoms' = atoms, leaf' \subseteq Ids, count' \in [Entities -> Int]
    PROVE  TypeOK'
<1>1. Ids' = Ids
  BY DEF Ids
<1>2. sess' \in [Sessions -> SessionState(Ids')]
  BY <1>1, SessionMoves
<1> QED
  BY <1>1, <1>2 DEF TypeOK, RowsOK

(* A session that writes rows and is done, or goes on with old names.      *)
LEMMA WritingStep ==
    ASSUME TypeOK, NEW s \in Sessions, NEW st \in SessionState(Ids'), Goto(s, st),
           RowsOK(atoms'), Ids \subseteq Ids', leaf' \subseteq Ids',
           count' \in [Entities -> Int]
    PROVE  TypeOK'
<1>1. sess' \in [Sessions -> SessionState(Ids')]
  BY SessionMoves
<1> QED
  BY <1>1 DEF TypeOK, RowsOK

(* The two transactions that add a row and may supersede another.          *)
LEMMA WriteRows ==
    ASSUME TypeOK, NEW s \in Sessions, Write(s)
    PROVE  /\ sess[s].ent \in Entities
           /\ sess[s].old \in Ids \cup {None}
           /\ RowsOK(atoms')
           /\ Ids' = Ids \cup {Len(atoms) + 1}
           /\ Len(atoms) + 1 \notin Ids
           /\ atoms'[Len(atoms) + 1] = Row(sess[s].ent, sess[s].text, sess[s].rank)
           /\ \A a \in Ids : /\ atoms'[a].ent = atoms[a].ent
                             /\ atoms'[a].rank = atoms[a].rank
                             /\ a # sess[s].old => atoms'[a] = atoms[a]
           /\ sess[s].old # None =>
                 /\ atoms[sess[s].old].live
                 /\ ~atoms'[sess[s].old].live
                 /\ atoms'[sess[s].old].by = Len(atoms) + 1
<1> DEFINE w == sess[s]
           x == Row(w.ent, w.text, w.rank)
           rows == Append(atoms, x)
           new == Len(atoms) + 1
<1>1. w.pc = "write" /\ w \in SessionState(Ids)
  BY DEF Write, TypeOK
<1>2. /\ w.ent \in Entities /\ w.text \in Texts /\ w.rank \in Ranks
      /\ w.old \in Ids \cup {None}
  BY <1>1 DEF SessionState
<1>3. x \in Atom /\ x.by = None
  BY <1>2, RowType
<1>4. RowsOK(atoms)
  BY DEF TypeOK
<1> HIDE DEF x
<1>5. /\ RowsOK(rows)
      /\ DOMAIN rows = Ids \cup {new}
      /\ new \notin Ids
      /\ rows[new] = x
      /\ \A a \in Ids : rows[a] = atoms[a]
  BY <1>3, <1>4, RowsAppend DEF Ids
<1>6. /\ w.old # None => atoms[w.old].live
      /\ atoms' = IF w.old = None THEN rows ELSE Superseded(rows, w.old, new)
  BY DEF Write, Supersedable, x
<1> HIDE DEF rows
<1>7. CASE w.old = None
  <2>1. None \notin Ids
    BY <1>4, RowsDomain DEF Ids
  <2>2. atoms' = rows
    BY <1>6, <1>7
  <2> QED
    BY <1>2, <1>5, <1>7, <2>1, <2>2 DEF x, Ids
<1>8. CASE w.old # None
  <2>1. w.old \in Ids /\ rows[w.old].live
    BY <1>2, <1>5, <1>6, <1>8
  <2>2. atoms' = Superseded(rows, w.old, new)
    BY <1>6, <1>8
  <2>3. SupersedeFacts(rows, w.old, new, atoms')
    BY <1>5, <2>1, <2>2, RowsSupersededLive
  <2> QED
    BY <1>2, <1>5, <1>6, <1>8, <2>1, <2>3 DEF x, Ids, SupersedeFacts
<1> QED
  BY <1>7, <1>8

LEMMA ReplaceRows ==
    ASSUME TypeOK, NEW s \in Sessions, Replace(s)
    PROVE  /\ sess[s].old \in Ids
           /\ RowsOK(atoms')
           /\ Ids' = Ids \cup {Len(atoms) + 1}
           /\ Len(atoms) + 1 \notin Ids
           /\ atoms'[Len(atoms) + 1] =
                 Row(sess[s].ent, sess[s].text, atoms[sess[s].old].rank)
           /\ \A a \in Ids : /\ atoms'[a].ent = atoms[a].ent
                             /\ atoms'[a].rank = atoms[a].rank
                             /\ a # sess[s].old => atoms'[a] = atoms[a]
           /\ atoms[sess[s].old].live
           /\ ~atoms'[sess[s].old].live
           /\ atoms'[sess[s].old].by = Len(atoms) + 1
<1> DEFINE w == sess[s]
           x == Row(w.ent, w.text, atoms[w.old].rank)
           rows == Append(atoms, x)
           new == Len(atoms) + 1
<1>1. w.pc = "replace" /\ w \in SessionState(Ids)
  BY DEF Replace, TypeOK
<1>2. w.ent \in Entities /\ w.text \in Texts /\ w.old \in Ids
  BY <1>1 DEF SessionState
<1>3. RowsOK(atoms)
  BY DEF TypeOK
<1>4. atoms[w.old].rank \in Ranks
  BY <1>2, <1>3, RowsDomain DEF Atom, Ids
<1>5. x \in Atom /\ x.by = None
  BY <1>2, <1>4, RowType
<1> HIDE DEF x
<1>6. /\ RowsOK(rows)
      /\ DOMAIN rows = Ids \cup {new}
      /\ new \notin Ids
      /\ rows[new] = x
      /\ \A a \in Ids : rows[a] = atoms[a]
  BY <1>3, <1>5, RowsAppend DEF Ids
<1>7. atoms[w.old].live /\ atoms' = Superseded(rows, w.old, new)
  BY DEF Replace, Supersedable, x
<1> HIDE DEF rows
<1>8. SupersedeFacts(rows, w.old, new, atoms')
  BY <1>2, <1>6, <1>7, RowsSupersededLive
<1> QED
  BY <1>2, <1>6, <1>7, <1>8 DEF x, Ids, SupersedeFacts

LEMMA InitType == Init => TypeOK
<1> SUFFICES ASSUME Init PROVE TypeOK
  OBVIOUS
<1>1. atoms \in Seq(Atom) /\ DOMAIN atoms = {}
  BY EmptySeq, LenProperties DEF Init
<1> QED
  BY <1>1, IdleType DEF Init, TypeOK, RowsOK, Ids

(* Every transaction that adds a row and its leaf.                         *)
LEMMA CreateRows ==
    ASSUME TypeOK, NEW e \in Entities, NEW t \in Texts, NEW k \in Ranks,
           atoms' = Append(atoms, Row(e, t, k))
    PROVE  /\ RowsOK(atoms')
           /\ Ids' = Ids \cup {Len(atoms) + 1}
           /\ Len(atoms) + 1 \notin Ids
           /\ atoms'[Len(atoms) + 1] = Row(e, t, k)
           /\ \A a \in Ids : atoms'[a] = atoms[a]
BY RowType, RowsAppend DEF TypeOK, Ids

LEMMA BumpType ==
    ASSUME TypeOK, NEW s \in Sessions, Bump(s)
    PROVE  TypeOK'
<1>1. sess[s] \in SessionState(Ids) /\ sess[s].pc = "bump"
  BY DEF Bump, TypeOK
<1>2. sess[s].ent \in Entities /\ sess[s].delta \in Int
  BY <1>1 DEF SessionState
<1>3. count' \in [Entities -> Int]
  BY <1>2 DEF Bump, TypeOK
<1> QED
  BY <1>3, IdleType, ReadingStep DEF Bump, TypeOK

LEMMA PromoterTypes == TypeOK /\ PromoterStep => TypeOK'
<1> SUFFICES ASSUME TypeOK, PromoterStep PROVE TypeOK'
  OBVIOUS
<1>1. ASSUME NEW e \in Entities, NEW t \in Texts, NEW k \in Ranks, Create(e, t, k)
      PROVE  TypeOK'
  <2>1. /\ RowsOK(atoms') /\ Ids' = Ids \cup {Len(atoms) + 1}
    BY <1>1, CreateRows DEF Create
  <2>2. SessionState(Ids) \subseteq SessionState(Ids')
    BY <2>1, SessionStatesGrow
  <2>3. leaf' \subseteq Ids' /\ count' \in [Entities -> Int]
    BY <1>1, <2>1 DEF Create, TypeOK
  <2> QED
    BY <1>1, <2>1, <2>2, <2>3 DEF Create, TypeOK, RowsOK
<1>2. ASSUME NEW s \in Sessions, NEW e \in Entities, NEW t \in Texts, NEW k \in Ranks,
             CheckDuplicate(s, e, t, k)
      PROVE  TypeOK'
  <2>1. [pc |-> "conflict", ent |-> e, text |-> t, rank |-> k] \in SessionState(Ids)
    BY DEF SessionState
  <2> QED
    BY <1>2, <2>1, ReadingStep DEF CheckDuplicate, TypeOK
<1>3. ASSUME NEW s \in Sessions, CheckConflict(s) PROVE TypeOK'
  <2>1. PICK old \in Ids \cup {None} :
           Goto(s, IF old # None /\ s \in Workers THEN Idle
                   ELSE [pc |-> "write", ent |-> sess[s].ent, text |-> sess[s].text,
                         rank |-> sess[s].rank, old |-> old])
    BY <1>3 DEF CheckConflict, Conflicting, Live
  <2>2. sess[s] \in SessionState(Ids) /\ sess[s].pc = "conflict"
    BY <1>3 DEF CheckConflict, TypeOK
  <2>3. sess[s].ent \in Entities /\ sess[s].text \in Texts /\ sess[s].rank \in Ranks
    BY <2>2 DEF SessionState
  <2>4. [pc |-> "write", ent |-> sess[s].ent, text |-> sess[s].text,
         rank |-> sess[s].rank, old |-> old] \in SessionState(Ids)
    BY <2>3 DEF SessionState
  <2> QED
    BY <1>3, <2>1, <2>4, IdleType, ReadingStep DEF CheckConflict, TypeOK
<1>4. ASSUME NEW s \in Sessions, Write(s) PROVE TypeOK'
  <2>1. /\ RowsOK(atoms') /\ Ids' = Ids \cup {Len(atoms) + 1}
        /\ sess[s].ent \in Entities
    BY <1>4, WriteRows
  <2>2. leaf' \subseteq Ids' /\ count' \in [Entities -> Int]
    BY <1>4, <2>1 DEF Write, TypeOK
  <2> QED
    BY <1>4, <2>1, <2>2, IdleType, WritingStep DEF Write
<1>5. ASSUME NEW s \in Sessions, RollBack(s) PROVE TypeOK'
  BY <1>5, IdleType, ReadingStep DEF RollBack, TypeOK
<1>6. ASSUME NEW s \in Sessions, NEW e \in Entities, NEW t \in Texts, NEW k \in Ranks,
             FallbackSave(s, e, t, k)
      PROVE  TypeOK'
  <2>1. /\ RowsOK(atoms') /\ Ids' = Ids \cup {Len(atoms) + 1}
    BY <1>6, CreateRows DEF FallbackSave
  <2>2. [pc |-> "link", atom |-> Len(atoms) + 1, ent |-> e] \in SessionState(Ids')
    BY <2>1 DEF SessionState
  <2> QED
    BY <1>6, <2>1, <2>2, WritingStep DEF FallbackSave, TypeOK
<1>7. ASSUME NEW s \in Sessions, FallbackLink(s) PROVE TypeOK'
  <2>1. sess[s] \in SessionState(Ids) /\ sess[s].pc = "link"
    BY <1>7 DEF FallbackLink, TypeOK
  <2>2. sess[s].atom \in Ids /\ sess[s].ent \in Entities
    BY <2>1 DEF SessionState
  <2>3. [pc |-> "bump", ent |-> sess[s].ent, delta |-> 1] \in SessionState(Ids)
    BY <2>2 DEF SessionState
  <2> QED
    BY <1>7, <2>2, <2>3, ReadingStep DEF FallbackLink, TypeOK
<1>8. ASSUME NEW s \in Sessions, Bump(s) PROVE TypeOK'
  BY <1>8, BumpType
<1> QED
  BY <1>1, <1>2, <1>3, <1>4, <1>5, <1>6, <1>7, <1>8 DEF PromoterStep, Sessions

LEMMA UserTypes == TypeOK /\ UserStep => TypeOK'
<1> SUFFICES ASSUME TypeOK, UserStep PROVE TypeOK'
  OBVIOUS
<1>1. ASSUME NEW s \in Sessions, NEW a \in Ids, NEW t \in Texts, StartReplace(s, a, t)
      PROVE  TypeOK'
  <2>1. atoms[a].ent \in Entities
    BY RowsDomain DEF TypeOK, Atom, Ids
  <2>2. [pc |-> "replace", old |-> a, ent |-> atoms[a].ent, text |-> t]
           \in SessionState(Ids)
    BY <2>1 DEF SessionState
  <2> QED
    BY <1>1, <2>2, ReadingStep DEF StartReplace, TypeOK
<1>2. ASSUME NEW s \in Sessions, Replace(s) PROVE TypeOK'
  <2>1. /\ RowsOK(atoms') /\ Ids' = Ids \cup {Len(atoms) + 1}
    BY <1>2, ReplaceRows
  <2>2. leaf' \subseteq Ids' /\ count' \in [Entities -> Int]
    BY <1>2, <2>1 DEF Replace, TypeOK
  <2> QED
    BY <1>2, <2>1, <2>2, IdleType, WritingStep DEF Replace
<1>3. ASSUME NEW s \in Sessions, RollBack(s) PROVE TypeOK'
  BY <1>3, IdleType, ReadingStep DEF RollBack, TypeOK
<1>4. ASSUME NEW s \in Sessions, NEW a \in Ids, StartDeprecate(s, a) PROVE TypeOK'
  <2>1. atoms[a].ent \in Entities
    BY RowsDomain DEF TypeOK, Atom, Ids
  <2>2. [pc |-> "deprecate", atom |-> a, ent |-> atoms[a].ent] \in SessionState(Ids)
    BY <2>1 DEF SessionState
  <2> QED
    BY <1>4, <2>2, ReadingStep DEF StartDeprecate, TypeOK
<1>5. ASSUME NEW s \in Sessions, NEW a \in Ids, DeleteLeaf(s, a) PROVE TypeOK'
  <2>1. [pc |-> "read", atom |-> a] \in SessionState(Ids)
    BY DEF SessionState
  <2> QED
    BY <1>5, <2>1, ReadingStep DEF DeleteLeaf, TypeOK
<1>6. ASSUME NEW s \in Sessions, ReadDeleted(s) PROVE TypeOK'
  <2>1. sess[s] \in SessionState(Ids) /\ sess[s].pc = "read"
    BY <1>6 DEF ReadDeleted, TypeOK
  <2>2. sess[s].atom \in Ids
    BY <2>1 DEF SessionState
  <2>3. atoms[sess[s].atom].ent \in Entities
    BY <2>2, RowsDomain DEF TypeOK, Atom, Ids
  <2>4. [pc |-> "deprecate", atom |-> sess[s].atom, ent |-> atoms[sess[s].atom].ent]
           \in SessionState(Ids)
    BY <2>2, <2>3 DEF SessionState
  <2> QED
    BY <1>6, <2>4, ReadingStep DEF ReadDeleted, TypeOK
<1>7. ASSUME NEW s \in Sessions, Deprecate(s) PROVE TypeOK'
  <2>1. sess[s] \in SessionState(Ids) /\ sess[s].pc = "deprecate"
    BY <1>7 DEF Deprecate, TypeOK
  <2>2. sess[s].atom \in Ids /\ sess[s].ent \in Entities
    BY <2>1 DEF SessionState
  <2>3. RowsOK(atoms') /\ Ids' = Ids
    BY <1>7, <2>2, RowsDeprecated DEF Deprecate, TypeOK, Ids
  <2>4. [pc |-> "bump", ent |-> sess[s].ent, delta |-> -1] \in SessionState(Ids')
    BY <2>2 DEF SessionState
  <2> QED
    BY <1>7, <2>3, <2>4, WritingStep DEF Deprecate, TypeOK
<1>8. ASSUME NEW s \in Sessions, Bump(s) PROVE TypeOK'
  BY <1>8, BumpType
<1> QED
  BY <1>1, <1>2, <1>3, <1>4, <1>5, <1>6, <1>7, <1>8 DEF UserStep, Sessions

LEMMA NextLoserType ==
    ASSUME NEW keeper \in Ids, NEW losers \in SUBSET Ids
    PROVE  (IF losers = {} THEN Idle
            ELSE [pc |-> "cluster", keeper |-> keeper, losers |-> losers])
              \in SessionState(Ids)
<1>1. [pc |-> "cluster", keeper |-> keeper, losers |-> losers] \in SessionState(Ids)
  BY DEF SessionState
<1> QED
  BY <1>1, IdleType

LEMMA IdsAreFinite == ASSUME TypeOK PROVE IsFiniteSet(Ids)
<1>1. Len(atoms) \in Nat /\ Ids = 1..Len(atoms)
  BY RowsDomain DEF TypeOK, Ids
<1>2. IsFiniteSet(1..Len(atoms))
  BY <1>1, FS_Interval
<1> QED
  BY <1>1, <1>2

LEMMA LiveIsFinite == ASSUME TypeOK, NEW e PROVE IsFiniteSet(Live(e))
BY IdsAreFinite, FS_Subset DEF Live

LEMMA CleanupTypes == TypeOK /\ CleanupStep => TypeOK'
<1> SUFFICES ASSUME TypeOK, CleanupStep PROVE TypeOK'
  OBVIOUS
<1>1. ASSUME NEW s \in Sessions, NEW e \in Entities, ReadCluster(s, e)
      PROVE  TypeOK'
  <2>1. PICK C \in Clusters(e) : \E k \in C :
           Goto(s, [pc |-> "cluster", keeper |-> k, losers |-> C \ {k}])
    BY <1>1 DEF ReadCluster
  <2> PICK k \in C : Goto(s, [pc |-> "cluster", keeper |-> k, losers |-> C \ {k}])
    BY <2>1
  <2>2. C \subseteq Ids
    BY DEF Clusters, Live
  <2>3. [pc |-> "cluster", keeper |-> k, losers |-> C \ {k}] \in SessionState(Ids)
    BY <2>2 DEF SessionState
  <2> QED
    BY <1>1, <2>3, ReadingStep DEF ReadCluster, TypeOK
<1>2. ASSUME NEW s \in Sessions, NEW a \in Ids, SupersedeLoser(s, a) PROVE TypeOK'
  <2>1. sess[s] \in SessionState(Ids) /\ sess[s].pc = "cluster"
    BY <1>2 DEF SupersedeLoser, TypeOK
  <2>2. sess[s].keeper \in Ids /\ sess[s].losers \subseteq Ids
    BY <2>1 DEF SessionState
  <2>3. RowsOK(atoms') /\ Ids' = Ids
    BY <1>2, <2>2, RowsSuperseded DEF SupersedeLoser, TypeOK, Ids
  <2>4. [pc |-> "unfile", atom |-> a, keeper |-> sess[s].keeper,
         losers |-> sess[s].losers \ {a}] \in SessionState(Ids')
    BY <2>2, <2>3 DEF SessionState
  <2>5. (IF sess[s].losers \ {a} = {} THEN Idle
         ELSE [pc |-> "cluster", keeper |-> sess[s].keeper,
               losers |-> sess[s].losers \ {a}]) \in SessionState(Ids')
    BY <2>2, <2>3, NextLoserType
  <2>6. leaf' \subseteq Ids' /\ count' \in [Entities -> Int]
    BY <1>2, <2>3 DEF SupersedeLoser, TypeOK
  <2>7. CASE Supersedable(atoms, a)
    BY <1>2, <2>3, <2>4, <2>6, <2>7, WritingStep DEF SupersedeLoser
  <2>8. CASE ~Supersedable(atoms, a)
    BY <1>2, <2>3, <2>5, <2>6, <2>8, WritingStep DEF SupersedeLoser, NextLoser
  <2> QED
    BY <2>7, <2>8
<1>3. ASSUME NEW s \in Sessions, UnfileLoser(s) PROVE TypeOK'
  <2>1. sess[s] \in SessionState(Ids) /\ sess[s].pc = "unfile"
    BY <1>3 DEF UnfileLoser, TypeOK
  <2>2. sess[s].keeper \in Ids /\ sess[s].losers \subseteq Ids
    BY <2>1 DEF SessionState
  <2> QED
    BY <1>3, <2>2, NextLoserType, ReadingStep DEF UnfileLoser, NextLoser, TypeOK
<1>4. ASSUME NEW s \in Sessions, Merge(s) PROVE TypeOK'
  <2> DEFINE w == sess[s]
             n == Cardinality(Migrated(w.keeper))
  <2>1. RowsOK(atoms') /\ Ids' = Ids
    BY <1>4, MergeRows DEF Ids
  <2>2. w.ent \in Entities /\ w.src \in Entities /\ DOMAIN w.keeper \subseteq Ids
    BY <1>4, MergeRead
  <2>3. n \in Int
    BY <2>2, IdsAreFinite, FS_Subset, FS_CardinalityType DEF Migrated
  <2>4. Goto(s, IF n = 0 THEN Idle
                ELSE [pc |-> "grow", src |-> w.src, ent |-> w.ent, delta |-> n])
    BY <1>4 DEF Merge
  <2> HIDE DEF n, w
  <2>5. [pc |-> "grow", src |-> w.src, ent |-> w.ent, delta |-> n] \in SessionState(Ids')
    BY <2>2, <2>3 DEF SessionState
  <2>6. leaf' \subseteq Ids' /\ count' \in [Entities -> Int]
    BY <1>4, <2>1 DEF Merge, TypeOK
  <2> QED
    BY <2>1, <2>4, <2>5, <2>6, IdleType, WritingStep
<1>5. ASSUME NEW s \in Sessions, GrowTarget(s) PROVE TypeOK'
  <2>1. sess[s] \in SessionState(Ids) /\ sess[s].pc = "grow"
    BY <1>5 DEF GrowTarget, TypeOK
  <2>2. sess[s].ent \in Entities /\ sess[s].src \in Entities /\ sess[s].delta \in Int
    BY <2>1 DEF SessionState
  <2>3. count' \in [Entities -> Int]
    BY <1>5, <2>2 DEF GrowTarget, TypeOK
  <2>4. [pc |-> "source", ent |-> sess[s].src] \in SessionState(Ids)
    BY <2>2 DEF SessionState
  <2> QED
    BY <1>5, <2>3, <2>4, ReadingStep DEF GrowTarget, TypeOK
<1>6. ASSUME NEW s \in Sessions, ReadSource(s) PROVE TypeOK'
  <2> DEFINE n == count[sess[s].ent]
  <2>1. sess[s] \in SessionState(Ids) /\ sess[s].pc = "source"
    BY <1>6 DEF ReadSource, TypeOK
  <2>2. sess[s].ent \in Entities
    BY <2>1 DEF SessionState
  <2>3. -n \in Int
    BY <2>2 DEF TypeOK
  <2>4. [pc |-> "bump", ent |-> sess[s].ent, delta |-> -n] \in SessionState(Ids)
    BY <2>2, <2>3 DEF SessionState
  <2> QED
    BY <1>6, <2>4, IdleType, ReadingStep DEF ReadSource, TypeOK
<1>7. ASSUME NEW s \in Sessions, Bump(s) PROVE TypeOK'
  BY <1>7, BumpType
<1>8. ASSUME NEW s \in Sessions, NEW e \in Entities, NEW f \in Entities, ReadMerge(s, e, f)
      PROVE  TypeOK'
  <2> DEFINE K == [a \in Live(e) |-> MergeKeeper(e, f, atoms[a].text)]
  <2>1. \A a \in Live(e) : MergeKeeper(e, f, atoms[a].text) \in Ids
    BY MergeKeeperIsLive DEF Live
  <2>2. K \in [Live(e) -> Ids] /\ Live(e) \in SUBSET Ids
    BY <2>1 DEF Live
  <2>3. K \in UNION {[S -> Ids] : S \in SUBSET Ids}
    BY <2>2
  <2>4. Goto(s, [pc |-> "merge", src |-> e, ent |-> f, keeper |-> K])
    BY <1>8 DEF ReadMerge
  <2> HIDE DEF K
  <2>5. [pc |-> "merge", src |-> e, ent |-> f, keeper |-> K] \in SessionState(Ids)
    BY <2>3 DEF SessionState
  <2> QED
    BY <1>8, <2>4, <2>5, ReadingStep DEF ReadMerge, TypeOK
<1> QED
  BY <1>1, <1>2, <1>3, <1>4, <1>5, <1>6, <1>7, <1>8 DEF CleanupStep, Sessions

LEMMA TypeStep == TypeOK /\ [Next]_vars => TypeOK'
<1> SUFFICES ASSUME TypeOK, [Next]_vars PROVE TypeOK'
  OBVIOUS
<1>1. ASSUME NEW s \in Sessions, Crash(s) PROVE TypeOK'
  BY <1>1, IdleType, ReadingStep DEF Crash, TypeOK
<1>2. CASE UNCHANGED vars
  BY <1>2 DEF vars, TypeOK, RowsOK, Ids
<1> QED
  BY <1>1, <1>2, PromoterTypes, UserTypes, CleanupTypes DEF Next

(* Every row and every local state is well formed, and each atom that a    *)
(* row, a leaf or a session names is in the table: whichever of create,    *)
(* promote, replace, deprecate, consolidate and merge interleave.          *)
THEOREM TypeCorrect == Spec => []TypeOK
<1>1. Init => TypeOK
  BY InitType
<1>2. TypeOK /\ [Next]_vars => TypeOK'
  BY TypeStep
<1> QED
  BY <1>1, <1>2, PTL DEF Spec

(***************************************************************************)
(* Successors.                                                             *)
(***************************************************************************)

(* What a step may do to a row: keep its successor without reviving it, or *)
(* give a live row one and retire it.  A new row has none.                 *)
RowsMove(rows, res) ==
    /\ DOMAIN rows \subseteq DOMAIN res
    /\ \A a \in DOMAIN rows :
          \/ res[a].by = rows[a].by /\ (res[a].live => rows[a].live)
          \/ rows[a].live /\ ~res[a].live
    /\ \A a \in (DOMAIN res) \ (DOMAIN rows) : res[a].by = None

LEMMA RowsStay == ASSUME atoms' = atoms PROVE RowsMove(atoms, atoms')
BY DEF RowsMove

LEMMA PromotersMove == TypeOK /\ PromoterStep => RowsMove(atoms, atoms')
<1> SUFFICES ASSUME TypeOK, PromoterStep PROVE RowsMove(atoms, atoms')
  OBVIOUS
<1>1. ASSUME NEW e \in Entities, NEW t \in Texts, NEW k \in Ranks,
             atoms' = Append(atoms, Row(e, t, k))
      PROVE  RowsMove(atoms, atoms')
  BY <1>1, CreateRows, RowType DEF RowsMove, Ids
<1>2. ASSUME NEW s \in Sessions, Write(s) PROVE RowsMove(atoms, atoms')
  <2> DEFINE old == sess[s].old
  <2>1. Ids' = Ids \cup {Len(atoms) + 1}
    BY <1>2, WriteRows
  <2>2. \A a \in Ids : a # old => atoms'[a] = atoms[a]
    BY <1>2, WriteRows
  <2>3. old \in Ids => atoms[old].live /\ ~atoms'[old].live
    BY <1>2, WriteRows, RowsDomain DEF TypeOK, Ids
  <2>4. atoms'[Len(atoms) + 1].by = None
    <3>1. atoms'[Len(atoms) + 1] = Row(sess[s].ent, sess[s].text, sess[s].rank)
      BY <1>2, WriteRows
    <3> QED
      BY <3>1 DEF Row
  <2> HIDE DEF old
  <2> QED
    BY <2>1, <2>2, <2>3, <2>4 DEF RowsMove, Ids
<1>3. ASSUME NEW s \in Sessions, CheckConflict(s) \/ RollBack(s) \/ FallbackLink(s) \/ Bump(s)
      PROVE  RowsMove(atoms, atoms')
  BY <1>3, RowsStay DEF CheckConflict, RollBack, FallbackLink, Bump
<1>4. ASSUME NEW s \in Sessions, NEW e \in Entities, NEW t \in Texts, NEW k \in Ranks,
             CheckDuplicate(s, e, t, k)
      PROVE  RowsMove(atoms, atoms')
  BY <1>4, RowsStay DEF CheckDuplicate
<1> QED
  BY <1>1, <1>2, <1>3, <1>4 DEF PromoterStep, Sessions, Create, FallbackSave

LEMMA UsersMove == TypeOK /\ UserStep => RowsMove(atoms, atoms')
<1> SUFFICES ASSUME TypeOK, UserStep PROVE RowsMove(atoms, atoms')
  OBVIOUS
<1>1. ASSUME NEW s \in Sessions, Replace(s) PROVE RowsMove(atoms, atoms')
  <2> DEFINE old == sess[s].old
  <2>1. Ids' = Ids \cup {Len(atoms) + 1}
    BY <1>1, ReplaceRows
  <2>2. \A a \in Ids : a # old => atoms'[a] = atoms[a]
    BY <1>1, ReplaceRows
  <2>3. atoms[old].live /\ ~atoms'[old].live
    BY <1>1, ReplaceRows
  <2>4. atoms'[Len(atoms) + 1].by = None
    <3>1. atoms'[Len(atoms) + 1] = Row(sess[s].ent, sess[s].text, atoms[sess[s].old].rank)
      BY <1>1, ReplaceRows
    <3> QED
      BY <3>1 DEF Row
  <2> HIDE DEF old
  <2> QED
    BY <2>1, <2>2, <2>3, <2>4 DEF RowsMove, Ids
<1>2. ASSUME NEW s \in Sessions, Deprecate(s) PROVE RowsMove(atoms, atoms')
  <2>1. sess[s] \in SessionState(Ids) /\ sess[s].pc = "deprecate"
    BY <1>2 DEF Deprecate, TypeOK
  <2>2. sess[s].atom \in Ids
    BY <2>1 DEF SessionState
  <2>3. atoms[sess[s].atom] \in Atom
    BY <2>2, RowsDomain DEF TypeOK, Ids
  <2> QED
    BY <1>2, <2>2, <2>3 DEF Deprecate, RowsMove, Ids, Atom
<1>3. ASSUME NEW s \in Sessions, RollBack(s) \/ ReadDeleted(s) \/ Bump(s)
      PROVE  RowsMove(atoms, atoms')
  BY <1>3, RowsStay DEF RollBack, ReadDeleted, Bump
<1>4. ASSUME NEW s \in Sessions, NEW a \in Ids, StartDeprecate(s, a) \/ DeleteLeaf(s, a)
      PROVE  RowsMove(atoms, atoms')
  BY <1>4, RowsStay DEF StartDeprecate, DeleteLeaf
<1>5. ASSUME NEW s \in Sessions, NEW a \in Ids, NEW t \in Texts, StartReplace(s, a, t)
      PROVE  RowsMove(atoms, atoms')
  BY <1>5, RowsStay DEF StartReplace
<1> QED
  BY <1>1, <1>2, <1>3, <1>4, <1>5 DEF UserStep, Sessions

LEMMA CleanersMove ==
    Mergers = {} /\ TypeOK /\ CleanupStep => RowsMove(atoms, atoms')
<1> SUFFICES ASSUME Mergers = {}, TypeOK, CleanupStep PROVE RowsMove(atoms, atoms')
  OBVIOUS
<1>1. ASSUME NEW s \in Sessions, NEW a \in Ids, SupersedeLoser(s, a)
      PROVE  RowsMove(atoms, atoms')
  <2>1. sess[s] \in SessionState(Ids) /\ sess[s].pc = "cluster"
    BY <1>1 DEF SupersedeLoser, TypeOK
  <2>2. sess[s].keeper \in Ids
    BY <2>1 DEF SessionState
  <2> DEFINE res == Superseded(atoms, a, sess[s].keeper)
  <2>3. /\ DOMAIN res = Ids
        /\ \A b \in Ids : b # a \/ ~atoms[a].live => res[b] = atoms[b]
        /\ atoms[a].live => ~res[a].live
    BY <2>2, RowsSuperseded DEF TypeOK, Ids
  <2>4. atoms' = res
    BY <1>1 DEF SupersedeLoser
  <2> HIDE DEF res
  <2> QED
    BY <2>3, <2>4 DEF RowsMove, Ids
<1>2. ASSUME NEW s \in Sessions, NEW e \in Entities, ReadCluster(s, e)
      PROVE  RowsMove(atoms, atoms')
  BY <1>2, RowsStay DEF ReadCluster
<1>3. ASSUME NEW s \in Sessions, UnfileLoser(s)
      PROVE  RowsMove(atoms, atoms')
  BY <1>3, RowsStay DEF UnfileLoser
<1> QED
  BY <1>1, <1>2, <1>3 DEF CleanupStep, Sessions

LEMMA EveryStepMoves ==
    Mergers = {} /\ TypeOK /\ [Next]_vars => RowsMove(atoms, atoms')
<1> SUFFICES ASSUME Mergers = {}, TypeOK, [Next]_vars PROVE RowsMove(atoms, atoms')
  OBVIOUS
<1>1. ASSUME NEW s \in Sessions, Crash(s) PROVE RowsMove(atoms, atoms')
  BY <1>1, RowsStay DEF Crash
<1>2. CASE UNCHANGED vars
  BY <1>2, RowsStay DEF vars
<1> QED
  BY <1>1, <1>2, PromotersMove, UsersMove, CleanersMove DEF Next

(* The strengthening: an atom with a successor is not live.                *)
SupersededIsDead == \A a \in Ids : atoms[a].by # None => ~atoms[a].live

LEMMA DeadStep ==
    Mergers = {} /\ TypeOK /\ SupersededIsDead /\ [Next]_vars
        => /\ SupersededIsDead'
           /\ \A a \in Ids : atoms[a].by # None => atoms'[a].by = atoms[a].by
BY EveryStepMoves DEF RowsMove, SupersededIsDead, Ids

LEMMA DeadCorrect ==
    ASSUME Mergers = {}
    PROVE  Spec => [](TypeOK /\ SupersededIsDead)
<1>1. Init => TypeOK /\ SupersededIsDead
  <2>1. Init => Ids = {}
    BY EmptySeq, LenProperties DEF Init, Ids
  <2> QED
    BY <2>1, InitType DEF SupersededIsDead
<1>2. TypeOK /\ SupersededIsDead /\ [Next]_vars => (TypeOK /\ SupersededIsDead)'
  BY TypeStep, DeadStep
<1> QED
  BY <1>1, <1>2, PTL DEF Spec

(* Once an atom has a successor it keeps it, whoever else read the atom    *)
(* while it was live and goes on to supersede it.  Not so with merges,     *)
(* which write over what became of the rows they read.                     *)
THEOREM SuccessorCorrect == Mergers = {} => (Spec => SuccessorIsFinal)
<1> SUFFICES ASSUME Mergers = {} PROVE Spec => SuccessorIsFinal
  OBVIOUS
<1> DEFINE Final == \A a \in Ids : atoms[a].by # None => atoms'[a].by = atoms[a].by
<1>1. TypeOK /\ SupersededIsDead /\ [Next]_vars => [Final]_vars
  BY DeadStep
<1>2. SuccessorIsFinal <=> [][Final]_vars
  BY PTL DEF SuccessorIsFinal
<1> HIDE DEF Final
<1> QED
  BY <1>1, <1>2, DeadCorrect, PTL DEF Spec

(***************************************************************************)
(* The count and the leaves, when only transactions write: create_atom,    *)
(* promotion, approval and replace_atom, with any number of each.          *)
(***************************************************************************)

TransactionsOnly ==
    Retirers = {} /\ Consolidators = {} /\ Mergers = {} /\ Fallbacks = {}

(* The strengthening: the atom to supersede belongs to the entity that the *)
(* session files the new one under.                                        *)
OldIsOfEntity ==
    \A s \in Sessions :
        sess[s].pc \in {"write", "replace"} /\ sess[s].old # None
            => atoms[sess[s].old].ent = sess[s].ent

(* A new atom under e, with its leaf; either counted, or in place of old.  *)
Filed(e, old, new) ==
    /\ new \notin Ids /\ new # None
    /\ Ids' = Ids \cup {new}
    /\ atoms'[new].live /\ atoms'[new].ent = e
    /\ \A a \in Ids : a # old => atoms'[a] = atoms[a]
    /\ \A a \in Ids : atoms'[a].ent = atoms[a].ent
    /\ \/ /\ old = None
          /\ count' = [count EXCEPT ![e] = @ + 1]
       \/ /\ old \in Ids
          /\ atoms[old].live /\ ~atoms'[old].live /\ atoms[old].ent = e
          /\ count' = count
    /\ leaf' = (leaf \cup {new}) \ {old}

LEMMA CreateFiles ==
    ASSUME TypeOK, NEW e \in Entities, NEW t \in Texts, NEW k \in Ranks, Create(e, t, k)
    PROVE  Filed(e, None, Len(atoms) + 1)
<1>1. /\ Ids' = Ids \cup {Len(atoms) + 1}
      /\ Len(atoms) + 1 \notin Ids
      /\ atoms'[Len(atoms) + 1] = Row(e, t, k)
      /\ \A a \in Ids : atoms'[a] = atoms[a]
  BY CreateRows DEF Create
<1>2. Row(e, t, k).live /\ Row(e, t, k).ent = e
  BY RowType
<1>3. None \notin leaf \cup {Len(atoms) + 1}
  BY RowsDomain DEF TypeOK, None, Ids
<1>4. leaf' = (leaf \cup {Len(atoms) + 1}) \ {None}
  BY <1>3 DEF Create
<1>5. Len(atoms) + 1 # None
  BY <1>3
<1> QED
  BY <1>1, <1>2, <1>4, <1>5 DEF Filed, Create

LEMMA WriteFiles ==
    ASSUME TypeOK, OldIsOfEntity, NEW s \in Sessions, Write(s)
    PROVE  Filed(sess[s].ent, sess[s].old, Len(atoms) + 1)
<1> DEFINE w == sess[s]
           new == Len(atoms) + 1
<1>1. /\ w.old \in Ids \cup {None} /\ new \notin Ids
      /\ Ids' = Ids \cup {new}
      /\ \A a \in Ids : a # w.old => atoms'[a] = atoms[a]
      /\ \A a \in Ids : atoms'[a].ent = atoms[a].ent
  BY WriteRows
<1>2. atoms'[new].live /\ atoms'[new].ent = w.ent
  <2>1. atoms'[new] = Row(w.ent, w.text, w.rank)
    BY WriteRows
  <2> QED
    BY <2>1 DEF Row
<1>3. w.old # None => atoms[w.old].live /\ ~atoms'[w.old].live
  BY WriteRows
<1>4. w.old # None => atoms[w.old].ent = w.ent
  BY DEF OldIsOfEntity, Write
<1>5. new # None
  BY RowsDomain DEF TypeOK, None
<1> QED
  BY <1>1, <1>2, <1>5, <1>3, <1>4 DEF Filed, Write

LEMMA ReplaceFiles ==
    ASSUME TypeOK, OldIsOfEntity, NEW s \in Sessions, Replace(s)
    PROVE  Filed(sess[s].ent, sess[s].old, Len(atoms) + 1)
<1> DEFINE w == sess[s]
           new == Len(atoms) + 1
<1>1. /\ w.old \in Ids /\ new \notin Ids
      /\ Ids' = Ids \cup {new}
      /\ \A a \in Ids : a # w.old => atoms'[a] = atoms[a]
      /\ \A a \in Ids : atoms'[a].ent = atoms[a].ent
      /\ atoms[w.old].live /\ ~atoms'[w.old].live
  BY ReplaceRows
<1>2. atoms'[new].live /\ atoms'[new].ent = w.ent
  <2>1. atoms'[new] = Row(w.ent, w.text, atoms[w.old].rank)
    BY ReplaceRows
  <2> QED
    BY <2>1 DEF Row
<1>3. w.old # None
  BY <1>1, RowsDomain DEF TypeOK, Ids
<1>4. atoms[w.old].ent = w.ent
  BY <1>3 DEF OldIsOfEntity, Replace
<1>5. new # None
  BY RowsDomain DEF TypeOK, None
<1> QED
  BY <1>1, <1>2, <1>5, <1>4 DEF Filed, Replace

(* Every step files an atom or leaves rows, leaves and counts alone.       *)
LEMMA TransactionStep ==
    ASSUME TransactionsOnly, TypeOK, OldIsOfEntity, [Next]_vars
    PROVE  \/ \E new : \E e \in Entities, old \in Ids \cup {None} : Filed(e, old, new)
           \/ UNCHANGED <<atoms, leaf, count>>
<1>1. ASSUME NEW e \in Entities, NEW t \in Texts, NEW k \in Ranks, Create(e, t, k)
      PROVE  \E new : \E old \in Ids \cup {None} : Filed(e, old, new)
  BY <1>1, CreateFiles
<1>2. ASSUME NEW s \in Sessions, Write(s)
      PROVE  \E new : \E e \in Entities, old \in Ids \cup {None} : Filed(e, old, new)
  BY <1>2, WriteFiles, WriteRows
<1>3. ASSUME NEW s \in Sessions, Replace(s)
      PROVE  \E new : \E e \in Entities, old \in Ids \cup {None} : Filed(e, old, new)
  <2>1. sess[s].ent \in Entities
    <3>1. sess[s] \in SessionState(Ids) /\ sess[s].pc = "replace"
      BY <1>3 DEF Replace, TypeOK
    <3> QED
      BY <3>1 DEF SessionState
  <2> QED
    BY <1>3, <2>1, ReplaceFiles, ReplaceRows
<1>4. ASSUME NEW s \in Sessions, NEW e \in Entities, NEW t \in Texts, NEW k \in Ranks,
             CheckDuplicate(s, e, t, k)
      PROVE  UNCHANGED <<atoms, leaf, count>>
  BY <1>4 DEF CheckDuplicate
<1>5. ASSUME NEW s \in Sessions, CheckConflict(s) \/ RollBack(s) \/ Crash(s)
      PROVE  UNCHANGED <<atoms, leaf, count>>
  BY <1>5 DEF CheckConflict, RollBack, Crash
<1>6. ASSUME NEW s \in Sessions, NEW a \in Ids, NEW t \in Texts, StartReplace(s, a, t)
      PROVE  UNCHANGED <<atoms, leaf, count>>
  BY <1>6 DEF StartReplace
<1>7. CASE UNCHANGED vars
  BY <1>7 DEF vars
<1> QED
  BY <1>1, <1>2, <1>3, <1>4, <1>5, <1>6, <1>7
     DEF Next, PromoterStep, UserStep, CleanupStep, TransactionsOnly, Sessions

LEMMA OldStep ==
    ASSUME TransactionsOnly, TypeOK, OldIsOfEntity, [Next]_vars
    PROVE  OldIsOfEntity'
<1>1. \A a \in Ids : atoms'[a].ent = atoms[a].ent
  BY TransactionStep DEF Filed, Ids
<1>2. ASSUME NEW r \in Sessions, sess'[r] = sess[r],
             sess[r].pc \in {"write", "replace"}, sess[r].old # None
      PROVE  atoms'[sess[r].old].ent = sess[r].ent
  <2>1. sess[r] \in SessionState(Ids)
    BY DEF TypeOK
  <2>2. sess[r].old \in Ids
    BY <1>2, <2>1 DEF SessionState
  <2> QED
    BY <1>1, <1>2, <2>2 DEF OldIsOfEntity
<1>3. ASSUME \A r \in Sessions :
               \/ sess'[r] = sess[r]
               \/ sess'[r].pc \notin {"write", "replace"}
               \/ sess'[r].old # None =>
                     /\ sess'[r].old \in Ids
                     /\ atoms[sess'[r].old].ent = sess'[r].ent
      PROVE  OldIsOfEntity'
  BY <1>1, <1>2, <1>3 DEF OldIsOfEntity
<1>4. Idle.pc = "idle"
  BY DEF Idle
<1>5. ASSUME NEW s \in Sessions, Goto(s, Idle) PROVE OldIsOfEntity'
  BY <1>3, <1>4, <1>5 DEF Goto, TypeOK
<1>6. ASSUME NEW s \in Sessions, NEW e \in Entities, NEW t \in Texts, NEW k \in Ranks,
             CheckDuplicate(s, e, t, k)
      PROVE  OldIsOfEntity'
  BY <1>3, <1>6 DEF CheckDuplicate, Goto, TypeOK
<1>7. ASSUME NEW s \in Sessions, CheckConflict(s) PROVE OldIsOfEntity'
  <2>1. PICK old \in Conflicting(s) \cup {None} :
           Goto(s, IF old # None /\ s \in Workers THEN Idle
                   ELSE [pc |-> "write", ent |-> sess[s].ent, text |-> sess[s].text,
                         rank |-> sess[s].rank, old |-> old])
    BY <1>7 DEF CheckConflict
  <2>2. old # None => old \in Ids /\ atoms[old].ent = sess[s].ent
    BY DEF Conflicting, Live
  <2> QED
    BY <1>3, <1>4, <2>1, <2>2 DEF Goto, TypeOK
<1>8. ASSUME NEW s \in Sessions, NEW a \in Ids, NEW t \in Texts, StartReplace(s, a, t)
      PROVE  OldIsOfEntity'
  BY <1>3, <1>8 DEF StartReplace, Goto, TypeOK
<1>9. CASE sess' = sess
  BY <1>3, <1>9
<1> QED
  BY <1>5, <1>6, <1>7, <1>8, <1>9
     DEF Next, PromoterStep, UserStep, CleanupStep, TransactionsOnly, Sessions, vars,
         Create, Write, RollBack, Replace, Crash

LEMMA LeavesStep ==
    ASSUME TransactionsOnly, TypeOK, OldIsOfEntity, LeavesAreLive, [Next]_vars
    PROVE  LeavesAreLive'
<1>1. ASSUME NEW e, NEW old \in Ids \cup {None}, NEW new, Filed(e, old, new)
      PROVE  LeavesAreLive'
  <2>1. old # new
    BY <1>1 DEF Filed
  <2>2. Ids' = Ids \cup {new} /\ leaf' = (leaf \cup {new}) \ {old}
    BY <1>1 DEF Filed
  <2>3. \A a \in Ids : a \in leaf <=> atoms[a].live
    BY DEF LeavesAreLive
  <2>4. leaf \subseteq Ids /\ None \notin Ids
    BY RowsDomain DEF TypeOK, Ids
  <2>5. \A a \in Ids : a \in leaf' <=> atoms'[a].live
    BY <1>1, <2>1, <2>2, <2>3, <2>4 DEF Filed
  <2>6. new \in leaf' /\ atoms'[new].live /\ leaf' \subseteq Ids'
    BY <1>1, <2>1, <2>2, <2>4 DEF Filed
  <2> QED
    BY <2>2, <2>5, <2>6 DEF LeavesAreLive
<1>2. CASE UNCHANGED <<atoms, leaf, count>>
  BY <1>2 DEF LeavesAreLive, Ids
<1> QED
  BY <1>1, <1>2, TransactionStep

LEMMA CountStep ==
    ASSUME TransactionsOnly, TypeOK, OldIsOfEntity, CountIsExact, [Next]_vars
    PROVE  CountIsExact'
<1>1. ASSUME NEW e \in Entities, NEW old \in Ids \cup {None}, NEW new,
             Filed(e, old, new), NEW f \in Entities
      PROVE  count'[f] = Cardinality(Live(f)')
  <2>1. IsFiniteSet(Live(f)) /\ count[f] = Cardinality(Live(f)) /\ new \notin Live(f)
    BY <1>1, LiveIsFinite DEF CountIsExact, Filed, Live
  <2>2. Cardinality(Live(f)) \in Nat
    BY <2>1, FS_CardinalityType
  <2>3. CASE f # e
    <3>1. None \notin Ids
      BY RowsDomain DEF TypeOK, Ids
    <3>2. \A a \in Ids : atoms'[a].live /\ atoms'[a].ent = f
                          <=> atoms[a].live /\ atoms[a].ent = f
      BY <1>1, <2>3, <3>1 DEF Filed
    <3>3. Ids' = Ids \cup {new} /\ atoms'[new].ent # f
      BY <1>1, <2>3 DEF Filed
    <3>4. Live(f)' = Live(f)
      BY <3>2, <3>3 DEF Live
    <3>5. count'[f] = count[f]
      BY <1>1, <2>3 DEF Filed, TypeOK
    <3> QED
      BY <2>1, <3>4, <3>5
  <2>4. CASE f = e /\ old = None
    <3>1. None \notin Ids
      BY RowsDomain DEF TypeOK, Ids
    <3>2. Live(f)' = Live(f) \cup {new}
      BY <1>1, <2>4, <3>1 DEF Filed, Live
    <3>3. Cardinality(Live(f) \cup {new}) = Cardinality(Live(f)) + 1
      BY <2>1, FS_AddElement
    <3>4. count'[f] = count[f] + 1
      BY <1>1, <2>4, <3>1 DEF Filed, TypeOK
    <3> QED
      BY <2>1, <3>2, <3>3, <3>4
  <2>5. CASE f = e /\ old # None
    <3>1. /\ old \in Live(f)
          /\ Live(f)' = (Live(f) \ {old}) \cup {new}
      BY <1>1, <2>5 DEF Filed, Live
    <3>2. /\ IsFiniteSet(Live(f) \ {old})
          /\ Cardinality(Live(f) \ {old}) = Cardinality(Live(f)) - 1
      BY <2>1, <3>1, FS_RemoveElement
    <3>3. Cardinality((Live(f) \ {old}) \cup {new}) = Cardinality(Live(f) \ {old}) + 1
      BY <2>1, <3>2, FS_AddElement
    <3>4. count'[f] = count[f]
      BY <1>1, <2>5 DEF Filed
    <3> QED
      BY <2>1, <2>2, <3>1, <3>2, <3>3, <3>4
  <2> QED
    BY <2>3, <2>4, <2>5
<1>2. CASE UNCHANGED <<atoms, leaf, count>>
  BY <1>2 DEF CountIsExact, Live, Ids
<1> QED
  BY <1>1, <1>2, TransactionStep DEF CountIsExact

LEMMA FiledInvariant ==
    ASSUME TransactionsOnly
    PROVE  Spec => [](TypeOK /\ OldIsOfEntity /\ LeavesAreLive /\ CountIsExact)
<1> DEFINE I == TypeOK /\ OldIsOfEntity /\ LeavesAreLive /\ CountIsExact
<1>1. Init => I
  <2> SUFFICES ASSUME Init PROVE I
    OBVIOUS
  <2>1. Ids = {}
    BY EmptySeq, LenProperties DEF Init, Ids
  <2>2. LeavesAreLive
    BY <2>1 DEF Init, LeavesAreLive
  <2>3. \A e \in Entities : Live(e) = {}
    BY <2>1 DEF Live
  <2>4. CountIsExact
    BY <2>3, FS_EmptySet DEF Init, CountIsExact
  <2>5. \A s \in Sessions : sess[s].pc = "idle"
    BY DEF Init, Idle
  <2>6. OldIsOfEntity
    BY <2>5 DEF OldIsOfEntity
  <2> QED
    BY <2>2, <2>4, <2>6, InitType
<1>2. I /\ [Next]_vars => I'
  BY TypeStep, OldStep, LeavesStep, CountStep
<1> QED
  BY <1>1, <1>2, PTL DEF Spec

(* The transactions that write atoms keep one leaf for each live atom and  *)
(* none for another, however creations, promotions, approvals and          *)
(* corrections interleave, roll back or die.                               *)
THEOREM LeavesCorrect == TransactionsOnly => (Spec => []LeavesAreLive)
<1> SUFFICES ASSUME TransactionsOnly PROVE Spec => []LeavesAreLive
  OBVIOUS
<1> QED
  BY FiledInvariant, PTL

(* And they keep every atom_count equal to the number of live atoms.       *)
THEOREM CountCorrect == TransactionsOnly => (Spec => []CountIsExact)
<1> SUFFICES ASSUME TransactionsOnly PROVE Spec => []CountIsExact
  OBVIOUS
<1> QED
  BY FiledInvariant, PTL

(***************************************************************************)
(* Successors are better, when only corrections and consolidations give    *)
(* an atom one: an approval or a merge may give it up for a worse one.     *)
(***************************************************************************)

NoApprovalNoMerge == Approvers = {} /\ Mergers = {}

(* The strengthening: so will those that sessions are about to give.       *)
PlansOutrank ==
    \A s \in Sessions :
        /\ sess[s].pc = "write" => sess[s].old = None
        /\ sess[s].pc \in {"cluster", "unfile"} =>
              \A a \in sess[s].losers : Outranks(sess[s].keeper, a)

RowOutranks(rows, a, b) ==
    \/ rows[a].rank > rows[b].rank
    \/ rows[a].rank = rows[b].rank /\ a > b

(* Ranks stay, and a row keeps its successor or gets a better one.         *)
BetterRows ==
    /\ Ids \subseteq Ids'
    /\ \A a \in Ids : atoms'[a].rank = atoms[a].rank
    /\ \A a \in Ids' : \/ a \in Ids /\ atoms'[a].by = atoms[a].by
                       \/ atoms'[a].by = None
                       \/ RowOutranks(atoms', atoms'[a].by, a)

LEMMA RowsKept == ASSUME atoms' = atoms PROVE BetterRows
BY DEF BetterRows, Ids

LEMMA BetterStep ==
    ASSUME NoApprovalNoMerge, TypeOK, PlansOutrank, [Next]_vars
    PROVE  BetterRows
<1>1. ASSUME NEW e \in Entities, NEW t \in Texts, NEW k \in Ranks,
             atoms' = Append(atoms, Row(e, t, k))
      PROVE  BetterRows
  <2>1. /\ Ids' = Ids \cup {Len(atoms) + 1}
        /\ atoms'[Len(atoms) + 1] = Row(e, t, k)
        /\ \A a \in Ids : atoms'[a] = atoms[a]
    BY <1>1, CreateRows
  <2>2. atoms'[Len(atoms) + 1].by = None
    BY <2>1, RowType
  <2> QED
    BY <2>1, <2>2 DEF BetterRows
<1>2. ASSUME NEW s \in Sessions, Write(s) PROVE BetterRows
  <2> DEFINE new == Len(atoms) + 1
  <2>1. sess[s].old = None
    BY <1>2 DEF Write, PlansOutrank
  <2>2. None \notin Ids
    BY RowsDomain DEF TypeOK, Ids
  <2>3. /\ Ids' = Ids \cup {new}
        /\ \A a \in Ids : atoms'[a] = atoms[a]
    BY <1>2, <2>1, <2>2, WriteRows
  <2>4. atoms'[new] = Row(sess[s].ent, sess[s].text, sess[s].rank)
    BY <1>2, WriteRows
  <2>5. atoms'[new].by = None
    BY <2>4 DEF Row
  <2> QED
    BY <2>3, <2>5 DEF BetterRows
<1>3. ASSUME NEW s \in Sessions, Replace(s) PROVE BetterRows
  <2> DEFINE old == sess[s].old
             new == Len(atoms) + 1
  <2>1. /\ old \in Ids /\ new \notin Ids
        /\ Ids' = Ids \cup {new}
        /\ \A a \in Ids : atoms'[a].rank = atoms[a].rank
        /\ \A a \in Ids : a # old => atoms'[a] = atoms[a]
        /\ atoms'[old].by = new
    BY <1>3, ReplaceRows
  <2>2. atoms'[new] = Row(sess[s].ent, sess[s].text, atoms[old].rank)
    BY <1>3, ReplaceRows
  <2>3. atoms'[new].by = None /\ atoms'[new].rank = atoms[old].rank
    BY <2>2 DEF Row
  <2>4. new > old
    BY <2>1, RowsDomain DEF TypeOK, Ids
  <2>5. RowOutranks(atoms', new, old)
    BY <2>1, <2>3, <2>4 DEF RowOutranks
  <2> HIDE DEF old, new
  <2> QED
    BY <2>1, <2>3, <2>5 DEF BetterRows
<1>4. ASSUME NEW s \in Sessions, Deprecate(s) PROVE BetterRows
  <2>1. sess[s] \in SessionState(Ids) /\ sess[s].pc = "deprecate"
    BY <1>4 DEF Deprecate, TypeOK
  <2>2. sess[s].atom \in Ids
    BY <2>1 DEF SessionState
  <2> QED
    BY <1>4, <2>2, RowsDeprecated DEF Deprecate, TypeOK, BetterRows, Ids
<1>5. ASSUME NEW s \in Sessions, NEW a \in Ids, SupersedeLoser(s, a) PROVE BetterRows
  <2> DEFINE k == sess[s].keeper
             res == Superseded(atoms, a, k)
  <2>1. sess[s] \in SessionState(Ids) /\ sess[s].pc = "cluster"
    BY <1>5 DEF SupersedeLoser, TypeOK
  <2>2. k \in Ids
    BY <2>1 DEF SessionState
  <2>3. Outranks(k, a)
    BY <1>5, <2>1 DEF SupersedeLoser, PlansOutrank
  <2>4. /\ DOMAIN res = Ids
        /\ \A b \in Ids : res[b].rank = atoms[b].rank
        /\ \A b \in Ids : b # a \/ ~atoms[a].live => res[b] = atoms[b]
        /\ atoms[a].live => res[a].by = k
    BY <2>2, RowsSuperseded DEF TypeOK, Ids
  <2>5. atoms' = res
    BY <1>5 DEF SupersedeLoser
  <2> HIDE DEF res, k
  <2>6. Ids' = Ids
    BY <2>4, <2>5 DEF Ids
  <2>7. RowOutranks(atoms', k, a)
    BY <2>2, <2>3, <2>4, <2>5 DEF Outranks, RowOutranks
  <2> QED
    BY <2>4, <2>5, <2>6, <2>7 DEF BetterRows
<1>6. ASSUME NEW s \in Sessions,
             \/ CheckConflict(s) \/ RollBack(s) \/ FallbackLink(s) \/ Bump(s)
             \/ ReadDeleted(s) \/ UnfileLoser(s) \/ Crash(s)
      PROVE  BetterRows
  BY <1>6, RowsKept
     DEF CheckConflict, RollBack, FallbackLink, Bump, ReadDeleted, UnfileLoser, Crash
<1>7. ASSUME NEW s \in Sessions, NEW e \in Entities, NEW t \in Texts, NEW k \in Ranks,
             CheckDuplicate(s, e, t, k)
      PROVE  BetterRows
  BY <1>7, RowsKept DEF CheckDuplicate
<1>8. ASSUME NEW s \in Sessions, NEW a \in Ids,
             \/ StartDeprecate(s, a) \/ DeleteLeaf(s, a)
             \/ \E t \in Texts : StartReplace(s, a, t)
      PROVE  BetterRows
  BY <1>8, RowsKept DEF StartDeprecate, DeleteLeaf, StartReplace
<1>9. ASSUME NEW s \in Sessions, NEW e \in Entities, ReadCluster(s, e) PROVE BetterRows
  BY <1>9, RowsKept DEF ReadCluster
<1>10. CASE UNCHANGED vars
  BY <1>10, RowsKept DEF vars
<1> QED
  BY <1>1, <1>2, <1>3, <1>4, <1>5, <1>6, <1>7, <1>8, <1>9, <1>10
     DEF Next, PromoterStep, UserStep, CleanupStep, NoApprovalNoMerge, Sessions,
         Create, FallbackSave

LEMMA PlansStep ==
    ASSUME NoApprovalNoMerge, TypeOK, PlansOutrank, [Next]_vars
    PROVE  PlansOutrank'
<1>1. \A a, b \in Ids : Outranks(a, b) => RowOutranks(atoms', a, b)
  BY BetterStep DEF BetterRows, Outranks, RowOutranks
<1> DEFINE Good(st) ==
             /\ st.pc = "write" => st.old = None
             /\ st.pc \in {"cluster", "unfile"} =>
                   \A a \in st.losers : RowOutranks(atoms', st.keeper, a)
<1>2. ASSUME NEW r \in Sessions PROVE Good(sess[r])
  <2>1. sess[r] \in SessionState(Ids)
    BY DEF TypeOK
  <2>2. CASE sess[r].pc \in {"cluster", "unfile"}
    <3>1. sess[r].keeper \in Ids /\ sess[r].losers \subseteq Ids
      BY <2>1, <2>2 DEF SessionState
    <3>2. sess[r].pc # "write"
      BY <2>2
    <3>3. \A a \in sess[r].losers : Outranks(sess[r].keeper, a)
      BY <2>2 DEF PlansOutrank
    <3> QED
      BY <1>1, <3>1, <3>2, <3>3
  <2>3. CASE sess[r].pc \notin {"cluster", "unfile"}
    BY <2>3 DEF PlansOutrank
  <2> QED
    BY <2>2, <2>3
<1>3. ASSUME \A r \in Sessions : Good(sess'[r]) PROVE PlansOutrank'
  BY <1>3 DEF PlansOutrank, Outranks, RowOutranks
<1>4. ASSUME NEW s \in Sessions, NEW st, Goto(s, st), Good(st) PROVE PlansOutrank'
  <2>1. \A r \in Sessions : sess'[r] = st \/ sess'[r] = sess[r]
    BY <1>4 DEF Goto, TypeOK
  <2> HIDE DEF Good
  <2> QED
    BY <1>2, <1>3, <1>4, <2>1
<1>5. Good(Idle)
  BY DEF Idle
<1>6. ASSUME sess' = sess PROVE PlansOutrank'
  BY <1>2, <1>3, <1>6
<1>7. ASSUME NEW st, st.pc \notin {"write", "cluster", "unfile"} PROVE Good(st)
  BY <1>7
<1>8. ASSUME NEW keeper, NEW losers,
             \A a \in losers : RowOutranks(atoms', keeper, a)
      PROVE  Good(IF losers = {} THEN Idle
                  ELSE [pc |-> "cluster", keeper |-> keeper, losers |-> losers])
  BY <1>8 DEF Idle
<1> HIDE DEF Good
<1>9. ASSUME NEW s \in Sessions, Goto(s, Idle) PROVE PlansOutrank'
  BY <1>4, <1>5, <1>9
<1>10. ASSUME NEW s \in Sessions, NEW e \in Entities, NEW t \in Texts, NEW k \in Ranks,
              CheckDuplicate(s, e, t, k) \/ FallbackSave(s, e, t, k)
       PROVE  PlansOutrank'
  BY <1>4, <1>7, <1>10 DEF CheckDuplicate, FallbackSave
<1>11. ASSUME NEW s \in Workers, CheckConflict(s) PROVE PlansOutrank'
  <2>1. PICK old : Goto(s, IF old # None /\ s \in Workers THEN Idle
                   ELSE [pc |-> "write", ent |-> sess[s].ent, text |-> sess[s].text,
                         rank |-> sess[s].rank, old |-> old])
    BY <1>11 DEF CheckConflict
  <2>2. ASSUME old = None
        PROVE  Good([pc |-> "write", ent |-> sess[s].ent, text |-> sess[s].text,
                     rank |-> sess[s].rank, old |-> old])
    BY <2>2 DEF Good
  <2> QED
    BY <1>4, <1>5, <2>1, <2>2 DEF Sessions
<1>12. ASSUME NEW s \in Sessions, FallbackLink(s) PROVE PlansOutrank'
  BY <1>4, <1>7, <1>12 DEF FallbackLink
<1>13. ASSUME NEW s \in Sessions, NEW a \in Ids,
              \/ StartDeprecate(s, a) \/ DeleteLeaf(s, a)
              \/ \E t \in Texts : StartReplace(s, a, t)
       PROVE  PlansOutrank'
  BY <1>4, <1>7, <1>13 DEF StartDeprecate, DeleteLeaf, StartReplace
<1>14. ASSUME NEW s \in Sessions, ReadDeleted(s) \/ Deprecate(s) PROVE PlansOutrank'
  BY <1>4, <1>7, <1>14 DEF ReadDeleted, Deprecate
<1>15. ASSUME NEW s \in Sessions, NEW e \in Entities, ReadCluster(s, e) PROVE PlansOutrank'
  <2>1. PICK C \in Clusters(e) : \E k \in C :
           /\ IsKeeper(k, C)
           /\ Goto(s, [pc |-> "cluster", keeper |-> k, losers |-> C \ {k}])
    BY <1>15 DEF ReadCluster
  <2> PICK k \in C :
           /\ IsKeeper(k, C)
           /\ Goto(s, [pc |-> "cluster", keeper |-> k, losers |-> C \ {k}])
    BY <2>1
  <2>2. \A a \in C \ {k} : RowOutranks(atoms', k, a)
    BY <1>1 DEF IsKeeper, Clusters, Live
  <2>3. Good([pc |-> "cluster", keeper |-> k, losers |-> C \ {k}])
    BY <2>2 DEF Good
  <2> QED
    BY <1>4, <2>3
<1>16. ASSUME NEW s \in Sessions, NEW a \in Ids, SupersedeLoser(s, a) PROVE PlansOutrank'
  <2> DEFINE w == sess[s]
             rest == w.losers \ {a}
  <2>1. w.pc = "cluster"
    BY <1>16 DEF SupersedeLoser
  <2>2. \A b \in rest : RowOutranks(atoms', w.keeper, b)
    BY <1>2, <2>1 DEF Good
  <2>3. Good([pc |-> "unfile", atom |-> a, keeper |-> w.keeper, losers |-> rest])
    BY <2>2 DEF Good
  <2> QED
    BY <1>4, <1>8, <1>16, <2>2, <2>3 DEF SupersedeLoser, NextLoser
<1>17. ASSUME NEW s \in Sessions, UnfileLoser(s) PROVE PlansOutrank'
  <2>1. sess[s].pc = "unfile"
    BY <1>17 DEF UnfileLoser
  <2>2. \A b \in sess[s].losers : RowOutranks(atoms', sess[s].keeper, b)
    BY <1>2, <2>1 DEF Good
  <2> QED
    BY <1>4, <1>8, <1>17, <2>2 DEF UnfileLoser, NextLoser
<1>18. CASE UNCHANGED vars
  BY <1>6, <1>18 DEF vars
<1>19. ASSUME NEW e \in Entities, NEW t \in Texts, NEW k \in Ranks, Create(e, t, k)
       PROVE  PlansOutrank'
  BY <1>6, <1>19 DEF Create
<1>20. ASSUME NEW s \in Sessions,
              Write(s) \/ RollBack(s) \/ Bump(s) \/ Replace(s) \/ Crash(s)
       PROVE  PlansOutrank'
  BY <1>9, <1>20 DEF Write, RollBack, Bump, Replace, Crash
<1> QED
  BY <1>10, <1>11, <1>12, <1>13, <1>14, <1>15, <1>16, <1>17, <1>18, <1>19, <1>20
     DEF Next, PromoterStep, UserStep, CleanupStep, NoApprovalNoMerge, Sessions

(* Corrections and consolidations, concurrent and interrupted, supersede   *)
(* an atom only by one that outranks it.                                   *)
THEOREM SuccessorOutranksCorrect ==
    NoApprovalNoMerge => (Spec => []SuccessorOutranks)
<1> SUFFICES ASSUME NoApprovalNoMerge PROVE Spec => []SuccessorOutranks
  OBVIOUS
<1> DEFINE I == TypeOK /\ PlansOutrank /\ SuccessorOutranks
<1>1. Init => I
  <2> SUFFICES ASSUME Init PROVE I
    OBVIOUS
  <2>1. Ids = {}
    BY EmptySeq, LenProperties DEF Init, Ids
  <2>2. \A s \in Sessions : sess[s].pc = "idle"
    BY DEF Init, Idle
  <2> QED
    BY <2>1, <2>2, InitType DEF PlansOutrank, SuccessorOutranks
<1>2. ASSUME I, [Next]_vars PROVE I'
  <2>1. SuccessorOutranks'
    <3>1. BetterRows /\ RowsOK(atoms) /\ RowsOK(atoms')
      BY <1>2, BetterStep, TypeStep DEF TypeOK
    <3>2. \A a \in Ids : atoms[a].by # None =>
                  atoms[a].by \in Ids /\ RowOutranks(atoms, atoms[a].by, a)
      BY <1>2, <3>1 DEF SuccessorOutranks, Outranks, RowOutranks, RowsOK, Ids
    <3>3. \A a \in Ids' : atoms'[a].by # None => RowOutranks(atoms', atoms'[a].by, a)
      BY <3>1, <3>2 DEF BetterRows, RowOutranks
    <3> QED
      BY <3>3 DEF SuccessorOutranks, Outranks, RowOutranks
  <2> QED
    BY <1>2, <2>1, TypeStep, PlansStep
<1>3. I => SuccessorOutranks
  OBVIOUS
<1> QED
  BY <1>1, <1>2, <1>3, PTL DEF Spec

(***************************************************************************)
(* Successors end, when at most one session at a time plans to give atoms  *)
(* to others it has read: one consolidation, or one merge.                 *)
(***************************************************************************)

Planners == Consolidators \cup Mergers

OnePlanner == \A s, t \in Planners : s = t

(* The atoms that a session in state st is about to give up, and those it  *)
(* gives them up for.                                                      *)
Given(st) ==
    IF st.pc = "merge" THEN {a \in DOMAIN st.keeper : st.keeper[a] # a}
    ELSE IF st.pc \in {"cluster", "unfile"} THEN st.losers
    ELSE {}

Kept(st) ==
    IF st.pc = "merge" THEN {st.keeper[a] : a \in Given(st)} ELSE {st.keeper}

(* The first n rows were there when the plan was made, and those it keeps  *)
(* were live.  Since then, these and the later rows were superseded by     *)
(* later ones only.                                                        *)
MadeAt(rows, st, n) ==
    /\ n \in 0..Len(rows)
    /\ Given(st) \subseteq 1..n
    /\ Kept(st) \subseteq (1..n) \ Given(st)
    /\ \A a \in DOMAIN rows :
          a > n \/ a \in Kept(st) => rows[a].by = None \/ rows[a].by > n

PlanIsOld(rows, st) == \E n \in Nat : MadeAt(rows, st, n)

PlansAreOld ==
    \A s \in Sessions :
        Given(sess[s]) # {} => s \in Planners /\ PlanIsOld(atoms, sess[s])

EndsInv == TypeOK /\ SupersededIsDead /\ SupersessionEnds /\ PlansAreOld

(* A row keeps its successor without being revived, or retires for a new   *)
(* row.  What everybody but a planner does.                                *)
FreshRows(rows, res) ==
    /\ DOMAIN rows \subseteq DOMAIN res
    /\ \A a \in DOMAIN rows :
          \/ res[a].by = rows[a].by /\ (res[a].live => rows[a].live)
          \/ res[a].by > Len(rows) /\ ~res[a].live
    /\ \A a \in (DOMAIN res) \ (DOMAIN rows) : res[a].by = None

LEMMA RowsUntouched == ASSUME atoms' = atoms PROVE FreshRows(atoms, atoms')
BY DEF FreshRows

LEMMA FreshEnds ==
    ASSUME TypeOK, TypeOK', SupersededIsDead, SupersessionEnds, FreshRows(atoms, atoms')
    PROVE  SupersededIsDead' /\ SupersessionEnds'
<1>1. SupersededIsDead'
  BY DEF SupersededIsDead, FreshRows, Ids
<1>2. ASSUME NEW S \in SUBSET Ids', S # {}, \A a \in S : atoms'[a].by \in S
      PROVE  FALSE
  <2>1. /\ Ids = 1..Len(atoms) /\ Len(atoms) \in Nat /\ None \notin Ids'
        /\ Ids' \subseteq Nat
    BY RowsDomain DEF TypeOK, Ids
  <2>2. S \subseteq Ids
    BY <1>2, <2>1 DEF FreshRows, Ids
  <2>3. ASSUME NEW a \in S PROVE ~(atoms'[a].by > Len(atoms))
    <3> DEFINE b == atoms'[a].by
    <3>1. b \in 1..Len(atoms)
      BY <1>2, <2>1, <2>2
    <3>2. \A m \in Nat : \A c \in 1..m : ~(c > m)
      OBVIOUS
    <3> HIDE DEF b
    <3>3. ~(b > Len(atoms))
      BY <2>1, <3>1, <3>2
    <3> QED
      BY <3>3 DEF b
  <2>4. \A a \in S : atoms[a].by \in S
    BY <1>2, <2>2, <2>3 DEF FreshRows, Ids
  <2> QED
    BY <1>2, <2>2, <2>4 DEF SupersessionEnds
<1> QED
  BY <1>1, <1>2 DEF SupersessionEnds

LEMMA FreshPlans ==
    ASSUME TypeOK, TypeOK', FreshRows(atoms, atoms'), NEW st, PlanIsOld(atoms, st)
    PROVE  PlanIsOld(atoms', st)
<1> PICK n \in Nat : MadeAt(atoms, st, n)
  BY DEF PlanIsOld
<1>1. /\ Ids = 1..Len(atoms) /\ Len(atoms) \in Nat
      /\ Ids' = 1..Len(atoms') /\ Len(atoms') \in Nat
      /\ \A a \in Ids' : atoms'[a].by \in Nat
  BY RowsDomain DEF TypeOK, Ids, Atom
<1>2. n <= Len(atoms) /\ n <= Len(atoms')
  <2>1. Len(atoms) # 0 => Len(atoms) \in Ids'
    BY <1>1 DEF FreshRows, Ids
  <2> QED
    BY <1>1, <2>1 DEF MadeAt
<1>3. ASSUME NEW a \in Ids', a > n \/ a \in Kept(st)
      PROVE  atoms'[a].by = None \/ atoms'[a].by > n
  <2>1. CASE a \notin Ids
    BY <2>1 DEF FreshRows, Ids
  <2>2. CASE a \in Ids
    <3>1. atoms[a].by = None \/ atoms[a].by > n
      BY <1>3, <2>2 DEF MadeAt, Ids
    <3> QED
      BY <1>1, <1>2, <2>2, <3>1 DEF FreshRows, Ids
  <2> QED
    BY <2>1, <2>2
<1>4. MadeAt(atoms', st, n)
  BY <1>1, <1>2, <1>3 DEF MadeAt, Ids
<1> QED
  BY <1>4 DEF PlanIsOld

(* The core of it: an atom that is given up leads to one that is kept, and *)
(* that one leads only to later rows, which lead to later rows.            *)
LEMMA GivenEnds ==
    ASSUME TypeOK, TypeOK', SupersessionEnds, Ids' = Ids, NEW st, PlanIsOld(atoms, st),
           \A a \in Ids : \/ atoms'[a].by = atoms[a].by
                          \/ a \in Given(st) /\ atoms'[a].by \in Kept(st)
    PROVE  SupersessionEnds'
<1> PICK n \in Nat : MadeAt(atoms, st, n)
  BY DEF PlanIsOld
<1>1. SUFFICES ASSUME NEW S \in SUBSET Ids, S # {}, \A a \in S : atoms'[a].by \in S
               PROVE  FALSE
  BY DEF SupersessionEnds
<1>2. Ids \subseteq Nat /\ None \notin Ids
  BY RowsDomain DEF TypeOK, Ids
<1> DEFINE Late == {x \in S : x > n}
<1>3. ASSUME NEW a \in S, a \in Late \/ a \in Kept(st)
      PROVE  atoms[a].by \in Late
  <2>1. a \notin Given(st)
    BY <1>2, <1>3 DEF MadeAt
  <2>2. atoms[a].by \in S
    BY <1>1, <2>1
  <2>3. atoms[a].by = None \/ atoms[a].by > n
    BY <1>3 DEF MadeAt, Ids
  <2> QED
    BY <1>2, <2>2, <2>3
<1>4. Late = {}
  BY <1>3 DEF SupersessionEnds
<1>5. \A a \in S : a \notin Kept(st)
  BY <1>3, <1>4
<1>6. \A a \in S : atoms[a].by \in S
  BY <1>1, <1>5
<1> QED
  BY <1>1, <1>6 DEF SupersessionEnds

(* One session moves, and plans nothing that was not there.                *)
LEMMA PlansStay ==
    ASSUME TypeOK, TypeOK', PlansAreOld, FreshRows(atoms, atoms'),
           NEW s \in Sessions, NEW st, Goto(s, st),
           Given(st) # {} => s \in Planners /\ PlanIsOld(atoms', st)
    PROVE  PlansAreOld'
<1> SUFFICES ASSUME NEW r \in Sessions, Given(sess'[r]) # {}
             PROVE  r \in Planners /\ PlanIsOld(atoms', sess'[r])
  BY DEF PlansAreOld
<1>1. CASE r = s
  <2>1. sess'[r] = st
    BY <1>1 DEF Goto, TypeOK
  <2> QED
    BY <1>1, <2>1
<1>2. CASE r # s
  <2>1. sess'[r] = sess[r]
    BY <1>2 DEF Goto, TypeOK
  <2> QED
    BY <2>1, FreshPlans DEF PlansAreOld
<1> QED
  BY <1>1, <1>2

LEMMA NothingGiven ==
    ASSUME NEW st, st.pc \notin {"merge", "cluster", "unfile"} PROVE Given(st) = {}
BY DEF Given

LEMMA IdleGivesNothing == Given(Idle) = {}
BY DEF Given, Idle

(* What a step that is not a planner's has to show.                        *)
LEMMA FreshStep ==
    ASSUME EndsInv, TypeOK', FreshRows(atoms, atoms'), NEW s \in Sessions, NEW st,
           Goto(s, st), Given(st) # {} => s \in Planners /\ PlanIsOld(atoms', st)
    PROVE  EndsInv'
BY FreshEnds, PlansStay DEF EndsInv

LEMMA WritesAreFresh ==
    ASSUME TypeOK,
           \/ \E s \in Sessions : Write(s) \/ Replace(s) \/ Deprecate(s)
           \/ \E e \in Entities, t \in Texts, k \in Ranks : atoms' = Append(atoms, Row(e, t, k))
    PROVE  FreshRows(atoms, atoms')
<1>1. /\ Ids = 1..Len(atoms) /\ Len(atoms) \in Nat /\ None \notin Ids
  BY RowsDomain DEF TypeOK, Ids
<1>2. ASSUME NEW e \in Entities, NEW t \in Texts, NEW k \in Ranks,
             atoms' = Append(atoms, Row(e, t, k))
      PROVE  FreshRows(atoms, atoms')
  BY <1>2, CreateRows, RowType DEF FreshRows, Ids
<1>3. ASSUME NEW s \in Sessions, Write(s) PROVE FreshRows(atoms, atoms')
  <2> DEFINE old == sess[s].old
             new == Len(atoms) + 1
  <2>1. /\ old \in Ids \cup {None} /\ Ids' = Ids \cup {new}
        /\ \A a \in Ids : a # old => atoms'[a] = atoms[a]
        /\ old # None => ~atoms'[old].live /\ atoms'[old].by = new
    BY <1>3, WriteRows
  <2>2. atoms'[new] = Row(sess[s].ent, sess[s].text, sess[s].rank)
    BY <1>3, WriteRows
  <2>3. atoms'[new].by = None
    BY <2>2 DEF Row
  <2> HIDE DEF old
  <2> QED
    BY <1>1, <2>1, <2>3 DEF FreshRows, Ids
<1>4. ASSUME NEW s \in Sessions, Replace(s) PROVE FreshRows(atoms, atoms')
  <2> DEFINE old == sess[s].old
             new == Len(atoms) + 1
  <2>1. /\ old \in Ids /\ Ids' = Ids \cup {new}
        /\ \A a \in Ids : a # old => atoms'[a] = atoms[a]
        /\ ~atoms'[old].live /\ atoms'[old].by = new
    BY <1>4, ReplaceRows
  <2>2. atoms'[new] = Row(sess[s].ent, sess[s].text, atoms[old].rank)
    BY <1>4, ReplaceRows
  <2>3. atoms'[new].by = None
    BY <2>2 DEF Row
  <2> HIDE DEF old
  <2> QED
    BY <1>1, <2>1, <2>3 DEF FreshRows, Ids
<1>5. ASSUME NEW s \in Sessions, Deprecate(s) PROVE FreshRows(atoms, atoms')
  <2> DEFINE a == sess[s].atom
             res == [atoms EXCEPT ![a].live = FALSE]
  <2>1. sess[s] \in SessionState(Ids) /\ sess[s].pc = "deprecate"
    BY <1>5 DEF Deprecate, TypeOK
  <2>2. a \in Ids
    BY <2>1 DEF SessionState
  <2>3. atoms' = res
    BY <1>5 DEF Deprecate
  <2>4. DOMAIN res = Ids /\ \A b \in Ids : res[b].by = atoms[b].by
    BY <2>2, RowsDeprecated DEF TypeOK, Ids
  <2>5. \A b \in Ids : res[b].live => atoms[b].live
    BY <2>2, RowsDomain DEF TypeOK, Ids, Atom
  <2> HIDE DEF res
  <2> QED
    BY <2>3, <2>4, <2>5 DEF FreshRows, Ids
<1> QED
  BY <1>2, <1>3, <1>4, <1>5

LEMMA OthersEnd ==
    ASSUME EndsInv, TypeOK', PromoterStep \/ UserStep \/ \E s \in Sessions : Crash(s)
    PROVE  EndsInv'
<1>1. TypeOK
  BY DEF EndsInv
<1>2. ASSUME NEW e \in Entities, NEW t \in Texts, NEW k \in Ranks, Create(e, t, k)
      PROVE  EndsInv'
  <2>1. FreshRows(atoms, atoms') /\ sess' = sess
    BY <1>1, <1>2, WritesAreFresh DEF Create
  <2>2. PlansAreOld'
    BY <1>1, <2>1, FreshPlans DEF EndsInv, PlansAreOld
  <2> QED
    BY <1>1, <2>1, <2>2, FreshEnds DEF EndsInv
<1>3. ASSUME NEW s \in Sessions, NEW st, Goto(s, st), Given(st) = {},
             FreshRows(atoms, atoms')
      PROVE  EndsInv'
  BY <1>3, FreshStep
<1>4. ASSUME NEW s \in Sessions, Goto(s, Idle), FreshRows(atoms, atoms')
      PROVE  EndsInv'
  BY <1>3, <1>4, IdleGivesNothing
<1>5. ASSUME NEW s \in Sessions, NEW e \in Entities, NEW t \in Texts, NEW k \in Ranks,
             CheckDuplicate(s, e, t, k)
      PROVE  EndsInv'
  <2> DEFINE st == [pc |-> "conflict", ent |-> e, text |-> t, rank |-> k]
  <2>1. Given(st) = {}
    BY NothingGiven
  <2> QED
    BY <1>3, <1>5, <2>1, RowsUntouched DEF CheckDuplicate
<1>6. ASSUME NEW s \in Sessions, CheckConflict(s) PROVE EndsInv'
  <2> PICK old : Goto(s, IF old # None /\ s \in Workers THEN Idle
                         ELSE [pc |-> "write", ent |-> sess[s].ent, text |-> sess[s].text,
                               rank |-> sess[s].rank, old |-> old])
    BY <1>6 DEF CheckConflict
  <2> DEFINE st == [pc |-> "write", ent |-> sess[s].ent, text |-> sess[s].text,
                    rank |-> sess[s].rank, old |-> old]
  <2>1. Given(st) = {}
    BY NothingGiven
  <2>2. FreshRows(atoms, atoms')
    BY <1>6, RowsUntouched DEF CheckConflict
  <2> QED
    BY <1>3, <1>4, <2>1, <2>2
<1>7. ASSUME NEW s \in Sessions, Write(s) \/ Replace(s) PROVE EndsInv'
  BY <1>1, <1>4, <1>7, WritesAreFresh DEF Write, Replace
<1>8. ASSUME NEW s \in Sessions, RollBack(s) \/ Bump(s) \/ Crash(s) PROVE EndsInv'
  BY <1>4, <1>8, RowsUntouched DEF RollBack, Bump, Crash
<1>9. ASSUME NEW s \in Sessions, NEW e \in Entities, NEW t \in Texts, NEW k \in Ranks,
             FallbackSave(s, e, t, k)
      PROVE  EndsInv'
  <2> DEFINE st == [pc |-> "link", atom |-> Len(atoms) + 1, ent |-> e]
  <2>1. Given(st) = {}
    BY NothingGiven
  <2> QED
    BY <1>1, <1>3, <1>9, <2>1, WritesAreFresh DEF FallbackSave
<1>10. ASSUME NEW s \in Sessions, FallbackLink(s) PROVE EndsInv'
  <2> DEFINE st == [pc |-> "bump", ent |-> sess[s].ent, delta |-> 1]
  <2>1. Given(st) = {}
    BY NothingGiven
  <2> QED
    BY <1>3, <1>10, <2>1, RowsUntouched DEF FallbackLink
<1>11. ASSUME NEW s \in Sessions, NEW a \in Ids, NEW t \in Texts, StartReplace(s, a, t)
       PROVE  EndsInv'
  <2> DEFINE st == [pc |-> "replace", old |-> a, ent |-> atoms[a].ent, text |-> t]
  <2>1. Given(st) = {}
    BY NothingGiven
  <2> QED
    BY <1>3, <1>11, <2>1, RowsUntouched DEF StartReplace
<1>12. ASSUME NEW s \in Sessions, NEW a \in Ids, StartDeprecate(s, a) PROVE EndsInv'
  <2> DEFINE st == [pc |-> "deprecate", atom |-> a, ent |-> atoms[a].ent]
  <2>1. Given(st) = {}
    BY NothingGiven
  <2> QED
    BY <1>3, <1>12, <2>1, RowsUntouched DEF StartDeprecate
<1>13. ASSUME NEW s \in Sessions, NEW a \in Ids, DeleteLeaf(s, a) PROVE EndsInv'
  <2> DEFINE st == [pc |-> "read", atom |-> a]
  <2>1. Given(st) = {}
    BY NothingGiven
  <2> QED
    BY <1>3, <1>13, <2>1, RowsUntouched DEF DeleteLeaf
<1>14. ASSUME NEW s \in Sessions, ReadDeleted(s) PROVE EndsInv'
  <2> DEFINE st == [pc |-> "deprecate", atom |-> sess[s].atom,
                    ent |-> atoms[sess[s].atom].ent]
  <2>1. Given(st) = {}
    BY NothingGiven
  <2> QED
    BY <1>3, <1>14, <2>1, RowsUntouched DEF ReadDeleted
<1>15. ASSUME NEW s \in Sessions, Deprecate(s) PROVE EndsInv'
  <2> DEFINE st == [pc |-> "bump", ent |-> sess[s].ent, delta |-> -1]
  <2>1. Given(st) = {}
    BY NothingGiven
  <2> QED
    BY <1>1, <1>3, <1>15, <2>1, WritesAreFresh DEF Deprecate
<1> QED
  BY <1>2, <1>5, <1>6, <1>7, <1>8, <1>9, <1>10, <1>11, <1>12, <1>13, <1>14, <1>15
     DEF PromoterStep, UserStep, Sessions

(* A plan is made of rows that are live, at the end of the table.          *)
LEMMA PlanIsNew ==
    ASSUME TypeOK, SupersededIsDead, NEW st, Given(st) \subseteq Ids,
           Kept(st) \subseteq Ids \ Given(st), \A a \in Kept(st) : atoms[a].live
    PROVE  PlanIsOld(atoms, st)
<1>1. /\ Ids = 1..Len(atoms) /\ Len(atoms) \in Nat
  BY RowsDomain DEF TypeOK, Ids
<1>2. MadeAt(atoms, st, Len(atoms))
  BY <1>1 DEF MadeAt, SupersededIsDead, Ids
<1> QED
  BY <1>1, <1>2 DEF PlanIsOld

LEMMA ReadClusterEnds ==
    ASSUME EndsInv, TypeOK', NEW s \in Consolidators, NEW e \in Entities, ReadCluster(s, e)
    PROVE  EndsInv'
<1> PICK C \in Clusters(e) : \E k \in C :
       Goto(s, [pc |-> "cluster", keeper |-> k, losers |-> C \ {k}])
  BY DEF ReadCluster
<1> PICK k \in C : Goto(s, [pc |-> "cluster", keeper |-> k, losers |-> C \ {k}])
  OBVIOUS
<1> DEFINE st == [pc |-> "cluster", keeper |-> k, losers |-> C \ {k}]
<1>1. C \subseteq Ids /\ \A a \in C : atoms[a].live
  BY DEF Clusters, Live
<1>2. Given(st) = C \ {k} /\ Kept(st) = {k}
  BY DEF Given, Kept
<1> HIDE DEF st
<1>3. PlanIsOld(atoms, st)
  BY <1>1, <1>2, PlanIsNew DEF EndsInv
<1>4. atoms' = atoms /\ Goto(s, st) /\ s \in Sessions /\ s \in Planners
  BY DEF ReadCluster, st, Sessions, Planners
<1> QED
  BY <1>3, <1>4, RowsUntouched, FreshStep

(* The keeper of a text keeps its own, or belongs to the target.           *)
LEMMA KeeperStays ==
    ASSUME TypeOK, NEW e, NEW f, NEW a \in Live(e)
    PROVE  LET k == MergeKeeper(e, f, atoms[a].text)
           IN  k \in Live(f) \/ (k \in Live(e) /\ atoms[k].text = atoms[a].text)
<1> DEFINE t == atoms[a].text
           own == {b \in Live(f) : atoms[b].text = t}
           all == IF own # {} THEN own ELSE {b \in Live(e) : atoms[b].text = t}
<1>1. all # {} /\ (all \subseteq Live(f) \/ \A b \in all : b \in Live(e) /\ atoms[b].text = t)
  OBVIOUS
<1>2. all \subseteq Nat
  BY RowsDomain DEF TypeOK, Ids, Live
<1>3. \E b \in all : \A c \in all : b <= c
  BY <1>1, <1>2, LeastElement
<1>4. MergeKeeper(e, f, t) = CHOOSE b \in all : \A c \in all : b <= c
  BY DEF MergeKeeper
<1> HIDE DEF all
<1> QED
  BY <1>1, <1>3, <1>4

LEMMA ReadMergeEnds ==
    ASSUME EndsInv, TypeOK', NEW s \in Mergers, NEW e \in Entities, NEW f \in Entities,
           ReadMerge(s, e, f)
    PROVE  EndsInv'
<1> DEFINE K == [a \in Live(e) |-> MergeKeeper(e, f, atoms[a].text)]
           st == [pc |-> "merge", src |-> e, ent |-> f, keeper |-> K]
<1>1. TypeOK
  BY DEF EndsInv
<1>2. e # f /\ Live(e) \cap Live(f) = {}
  BY DEF ReadMerge, Live
<1>3. /\ Given(st) = {a \in Live(e) : MergeKeeper(e, f, atoms[a].text) # a}
      /\ Kept(st) = {MergeKeeper(e, f, atoms[a].text) : a \in Given(st)}
  BY DEF Given, Kept
<1>4. ASSUME NEW k \in Kept(st)
      PROVE  k \in Ids /\ k \notin Given(st) /\ atoms[k].live
  <2> PICK a \in Given(st) : k = MergeKeeper(e, f, atoms[a].text)
    BY <1>3
  <2>1. a \in Live(e)
    BY <1>3
  <2>2. k \in Live(f) \/ (k \in Live(e) /\ atoms[k].text = atoms[a].text)
    BY <1>1, <2>1, KeeperStays
  <2>3. CASE k \in Live(f)
    BY <1>2, <1>3, <2>3 DEF Live
  <2>4. CASE k \in Live(e) /\ atoms[k].text = atoms[a].text
    BY <1>3, <2>4 DEF Live
  <2> QED
    BY <2>2, <2>3, <2>4
<1>5. Given(st) \subseteq Ids
  BY <1>3 DEF Live
<1>6. atoms' = atoms /\ Goto(s, st) /\ s \in Sessions /\ s \in Planners
  BY DEF ReadMerge, Sessions, Planners
<1> HIDE DEF st
<1>7. PlanIsOld(atoms, st)
  BY <1>4, <1>5, PlanIsNew DEF EndsInv
<1> QED
  BY <1>6, <1>7, RowsUntouched, FreshStep

(* The other sessions have no plan.                                        *)
LEMMA NoOtherPlan ==
    ASSUME OnePlanner, PlansAreOld, NEW s \in Planners, NEW r \in Sessions, r # s
    PROVE  Given(sess[r]) = {}
BY DEF PlansAreOld, OnePlanner

LEMMA UnfileEnds ==
    ASSUME EndsInv, TypeOK', NEW s \in Consolidators, UnfileLoser(s)
    PROVE  EndsInv'
<1> DEFINE w == sess[s]
           st == [pc |-> "cluster", keeper |-> w.keeper, losers |-> w.losers]
<1>1. s \in Sessions /\ s \in Planners /\ atoms' = atoms
  BY DEF Sessions, Planners, UnfileLoser
<1>2. Goto(s, IF w.losers = {} THEN Idle ELSE st) /\ w.pc = "unfile"
  BY DEF UnfileLoser, NextLoser
<1>3. Given(st) = Given(w) /\ Kept(st) = Kept(w)
  BY <1>2 DEF Given, Kept
<1> HIDE DEF st
<1>4. Given(st) # {} => PlanIsOld(atoms', st)
  BY <1>1, <1>3 DEF EndsInv, PlansAreOld, PlanIsOld, MadeAt
<1> QED
  BY <1>1, <1>2, <1>4, RowsUntouched, IdleGivesNothing, FreshStep

LEMMA SupersedeEnds ==
    ASSUME OnePlanner, EndsInv, TypeOK', NEW s \in Consolidators, NEW a \in Ids,
           SupersedeLoser(s, a)
    PROVE  EndsInv'
<1> DEFINE w == sess[s]
           k == w.keeper
           rest == w.losers \ {a}
           res == Superseded(atoms, a, k)
<1>1. s \in Sessions /\ s \in Planners /\ w.pc = "cluster" /\ a \in w.losers
  BY DEF Sessions, Planners, SupersedeLoser
<1>2. Given(w) = w.losers /\ Kept(w) = {k}
  BY <1>1 DEF Given, Kept
<1>3. PlanIsOld(atoms, w)
  BY <1>1, <1>2 DEF EndsInv, PlansAreOld
<1>4. TypeOK /\ w \in SessionState(Ids)
  BY <1>1 DEF EndsInv, TypeOK
<1>5. k \in Ids
  BY <1>1, <1>4 DEF SessionState
<1>6. /\ DOMAIN res = Ids
      /\ \A b \in Ids : b # a \/ ~atoms[a].live => res[b] = atoms[b]
      /\ atoms[a].live => res[a].by = k /\ ~res[a].live
  BY <1>4, <1>5, RowsSuperseded DEF TypeOK, Ids
<1>7. atoms' = res
  BY DEF SupersedeLoser
<1>8. Ids' = Ids /\ Len(atoms') = Len(atoms)
  <2>1. Ids' = Ids
    BY <1>6, <1>7 DEF Ids
  <2>2. /\ Ids = 1..Len(atoms) /\ Len(atoms) \in Nat
        /\ Ids' = 1..Len(atoms') /\ Len(atoms') \in Nat
    BY <1>4, RowsDomain DEF TypeOK, Ids
  <2> QED
    BY <2>1, <2>2
<1> HIDE DEF res
<1>9. SupersededIsDead'
  BY <1>6, <1>7, <1>8 DEF EndsInv, SupersededIsDead
<1>10. SupersessionEnds'
  <2>1. \A b \in Ids : \/ atoms'[b].by = atoms[b].by
                       \/ b \in Given(w) /\ atoms'[b].by \in Kept(w)
    BY <1>1, <1>2, <1>6, <1>7
  <2> QED
    BY <1>3, <1>4, <1>8, <2>1, GivenEnds DEF EndsInv
<1>11. PICK st : /\ Goto(s, st)
                 /\ Given(st) # {} => Given(st) = rest /\ Kept(st) = {k}
  <2>1. CASE Supersedable(atoms, a)
    <3> DEFINE st == [pc |-> "unfile", atom |-> a, keeper |-> k, losers |-> rest]
    <3>1. Goto(s, st)
      BY <2>1 DEF SupersedeLoser
    <3>2. Given(st) = rest /\ Kept(st) = {k}
      BY DEF Given, Kept
    <3> QED
      BY <3>1, <3>2
  <2>2. CASE ~Supersedable(atoms, a)
    <3> DEFINE st == [pc |-> "cluster", keeper |-> k, losers |-> rest]
    <3>1. Goto(s, Idle) \/ Goto(s, st)
      BY <2>2 DEF SupersedeLoser, NextLoser
    <3>2. Given(st) = rest /\ Kept(st) = {k}
      BY DEF Given, Kept
    <3> QED
      BY <3>1, <3>2, IdleGivesNothing
  <2> QED
    BY <2>1, <2>2
<1>12. ASSUME Given(st) # {} PROVE PlanIsOld(atoms', st)
  <2> PICK n \in Nat : MadeAt(atoms, w, n)
    BY <1>3 DEF PlanIsOld
  <2>1. a \in 1..n /\ a # k
    BY <1>1, <1>2 DEF MadeAt
  <2>2. \A b \in Ids : b > n \/ b = k => atoms'[b] = atoms[b]
    BY <1>6, <1>7, <2>1
  <2>3. \A b \in Ids : b > n \/ b = k => atoms[b].by = None \/ atoms[b].by > n
    BY <1>2 DEF MadeAt, Ids
  <2>4. MadeAt(atoms', st, n)
    BY <1>2, <1>8, <1>11, <1>12, <2>2, <2>3 DEF MadeAt, Ids
  <2> QED
    BY <2>4 DEF PlanIsOld
<1>13. PlansAreOld'
  <2> SUFFICES ASSUME NEW r \in Sessions, Given(sess'[r]) # {}
               PROVE  r \in Planners /\ PlanIsOld(atoms', sess'[r])
    BY DEF PlansAreOld
  <2>1. r = s
    <3>1. r # s => sess'[r] = sess[r]
      BY <1>4, <1>11 DEF Goto, TypeOK
    <3> QED
      BY <1>1, <3>1, NoOtherPlan DEF EndsInv
  <2>2. sess'[r] = st
    BY <1>1, <1>4, <1>11, <2>1 DEF Goto, TypeOK
  <2> QED
    BY <1>1, <1>12, <2>1, <2>2
<1> QED
  BY <1>9, <1>10, <1>13 DEF EndsInv

LEMMA MergeEnds ==
    ASSUME OnePlanner, EndsInv, TypeOK', NEW s \in Mergers, Merge(s)
    PROVE  EndsInv'
<1> DEFINE w == sess[s]
           n == Cardinality(Migrated(w.keeper))
<1>1. s \in Sessions /\ s \in Planners /\ w.pc = "merge" /\ TypeOK
  BY DEF Sessions, Planners, Merge, EndsInv
<1>2. /\ Given(w) = {a \in DOMAIN w.keeper : w.keeper[a] # a}
      /\ Kept(w) = {w.keeper[a] : a \in Given(w)}
  BY <1>1 DEF Given, Kept
<1>3. Ids' = Ids
  BY <1>1, MergeRows DEF Ids
<1>4. ASSUME NEW a \in Ids
      PROVE  \/ a \in Given(w) /\ atoms'[a].by = w.keeper[a] /\ ~atoms'[a].live
             \/ atoms'[a].by = atoms[a].by /\ atoms'[a].live = atoms[a].live
  <2>1. atoms[a] \in Atom
    BY <1>1, RowsDomain DEF TypeOK, Ids
  <2>2. CASE a \notin DOMAIN w.keeper
    BY <2>2 DEF Merge
  <2>3. CASE a \in DOMAIN w.keeper /\ w.keeper[a] = a
    <3>1. atoms'[a] = [atoms[a] EXCEPT !.ent = w.ent]
      BY <2>3 DEF Merge
    <3> QED
      BY <2>1, <3>1 DEF Atom
  <2>4. CASE a \in DOMAIN w.keeper /\ w.keeper[a] # a
    <3>1. atoms'[a] = [atoms[a] EXCEPT !.live = FALSE, !.by = w.keeper[a]]
      BY <2>4 DEF Merge
    <3>2. a \in Given(w)
      BY <1>2, <2>4
    <3> QED
      BY <2>1, <3>1, <3>2 DEF Atom
  <2> QED
    BY <2>2, <2>3, <2>4
<1>5. Goto(s, IF n = 0 THEN Idle
              ELSE [pc |-> "grow", src |-> w.src, ent |-> w.ent, delta |-> n])
  BY DEF Merge
<1> DEFINE grow == [pc |-> "grow", src |-> w.src, ent |-> w.ent, delta |-> n]
<1>6. Given(grow) = {}
  BY NothingGiven
<1> HIDE DEF n, w, grow
<1>7. SupersededIsDead'
  BY <1>3, <1>4 DEF EndsInv, SupersededIsDead
<1>8. PlansAreOld'
  <2> SUFFICES ASSUME NEW r \in Sessions PROVE Given(sess'[r]) = {}
    BY DEF PlansAreOld
  <2>1. CASE r = s
    <3>1. sess'[r] = Idle \/ sess'[r] = grow
      BY <1>1, <1>5, <2>1 DEF Goto, TypeOK, grow
    <3> QED
      BY <1>6, <3>1, IdleGivesNothing
  <2>2. CASE r # s
    <3>1. sess'[r] = sess[r]
      BY <1>1, <1>5, <2>2 DEF Goto, TypeOK
    <3> QED
      BY <1>1, <2>2, <3>1, NoOtherPlan DEF EndsInv
  <2> QED
    BY <2>1, <2>2
<1>9. SupersessionEnds'
  <2>1. CASE Given(w) = {}
    <3>1. FreshRows(atoms, atoms')
      BY <1>3, <1>4, <2>1 DEF FreshRows, Ids
    <3> QED
      BY <1>1, <3>1, FreshEnds DEF EndsInv
  <2>2. CASE Given(w) # {}
    <3>1. PlanIsOld(atoms, w)
      BY <1>1, <2>2 DEF EndsInv, PlansAreOld, w
    <3>2. \A a \in Ids : \/ atoms'[a].by = atoms[a].by
                         \/ a \in Given(w) /\ atoms'[a].by \in Kept(w)
      BY <1>2, <1>4
    <3> QED
      BY <1>1, <1>3, <3>1, <3>2, GivenEnds DEF EndsInv
  <2> QED
    BY <2>1, <2>2
<1> QED
  BY <1>7, <1>8, <1>9 DEF EndsInv

LEMMA EndsStart == Init => EndsInv
<1> SUFFICES ASSUME Init PROVE EndsInv
  OBVIOUS
<1>1. Ids = {}
  BY EmptySeq, LenProperties DEF Init, Ids
<1>2. \A s \in Sessions : Given(sess[s]) = {}
  BY IdleGivesNothing DEF Init
<1> QED
  BY <1>1, <1>2, InitType DEF EndsInv, SupersededIsDead, SupersessionEnds, PlansAreOld

LEMMA EndsStep == OnePlanner /\ EndsInv /\ [Next]_vars => EndsInv'
<1> SUFFICES ASSUME OnePlanner, EndsInv, [Next]_vars PROVE EndsInv'
  OBVIOUS
<1>1. TypeOK'
  BY TypeStep DEF EndsInv
<1>2. CASE PromoterStep \/ UserStep \/ \E s \in Sessions : Crash(s)
  BY <1>1, <1>2, OthersEnd
<1>3. CASE CleanupStep
  <2>1. ASSUME NEW s \in Mergers, GrowTarget(s) PROVE EndsInv'
    <3> DEFINE st == [pc |-> "source", ent |-> sess[s].src]
    <3>1. Given(st) = {}
      BY NothingGiven
    <3> QED
      BY <1>1, <2>1, <3>1, RowsUntouched, FreshStep DEF GrowTarget, Sessions
  <2>2. ASSUME NEW s \in Mergers, ReadSource(s) PROVE EndsInv'
    <3> DEFINE st == [pc |-> "bump", ent |-> sess[s].ent, delta |-> -count[sess[s].ent]]
    <3>1. Given(st) = {}
      BY NothingGiven
    <3> QED
      BY <1>1, <2>2, <3>1, RowsUntouched, IdleGivesNothing, FreshStep
         DEF ReadSource, Sessions
  <2>3. ASSUME NEW s \in Mergers, Bump(s) PROVE EndsInv'
    BY <1>1, <2>3, RowsUntouched, IdleGivesNothing, FreshStep DEF Bump, Sessions
  <2> QED
    BY <1>1, <1>3, <2>1, <2>2, <2>3, ReadClusterEnds, SupersedeEnds, UnfileEnds,
       ReadMergeEnds, MergeEnds DEF CleanupStep
<1>4. CASE UNCHANGED vars
  BY <1>1, <1>4 DEF vars, EndsInv, SupersededIsDead, SupersessionEnds, PlansAreOld, Ids
<1> QED
  BY <1>2, <1>3, <1>4 DEF Next

(* Where one consolidation, or one merge, plans at a time, the successors  *)
(* of an atom end at one that has none, whatever promotions, approvals,    *)
(* corrections, deprecations and crashes come between its reads and its    *)
(* writes (pipeline/lifecycle/consolidate.py; core.py, merge_entity).      *)
THEOREM SuccessorsEnd == OnePlanner => (Spec => []SupersessionEnds)
<1> SUFFICES ASSUME OnePlanner PROVE Spec => []SupersessionEnds
  OBVIOUS
<1>1. EndsInv => SupersessionEnds
  BY DEF EndsInv
<1> QED
  BY <1>1, EndsStart, EndsStep, PTL DEF Spec
=============================================================================
