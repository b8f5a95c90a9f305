--------------------------- MODULE ParityProofs ---------------------------
(***************************************************************************)
(* Theorems about BackendParity: for any namespaces, ids, texts and times, *)
(* and for any number of calls, the shared tables of Postgres hold the     *)
(* rows of every namespace, dressed with its name, and nothing else; so    *)
(* both backends return the same from each call and show the same.         *)
(***************************************************************************)
EXTENDS BackendParity, FiniteSetTheorems, WellFoundedInduction, TLAPS

(* The columns of each table in SQLite.                                    *)
Cols ==
    [node |-> {"tab", "id", "up", "level", "atom", "text"},
     raw |-> {"tab", "id", "thread", "at"},
     cand |-> {"tab", "id", "status", "sig", "evs", "ent", "by", "at"},
     atom |-> {"tab", "id", "ent", "sig", "at", "dead", "by"},
     ent |-> {"tab", "id", "name", "type", "count", "at"},
     alias |-> {"tab", "alias", "ent", "at"},
     page |-> {"tab", "id", "ent", "text", "dirty", "fails", "version", "rev",
               "regen", "edit", "at", "made"},
     active |-> {"tab", "thread", "ent", "at", "source"},
     jour |-> {"tab", "id", "at", "action", "target"},
     meta |-> {"tab", "key", "value"},
     epi |-> {"tab", "id", "session", "at"},
     dig |-> {"tab", "id", "kind", "key", "at", "text"}]

Row(x) ==
    /\ x = [k \in DOMAIN x |-> x[k]]
    /\ x.tab \in DOMAIN Cols /\ DOMAIN x = Cols[x.tab]

(* What Postgres makes of a row of ns.                                     *)
Dress(ns, x) ==
    IF x.tab = "meta" THEN [x EXCEPT !.key = PgMetaKey(ns, x.key)] ELSE In(ns, x)

DressedRows(ns, S) == {Dress(ns, x) : x \in S}

Dressed(lit) == UNION {DressedRows(ns, lit[ns]) : ns \in Namespaces}

(* Ids tell the atoms of a namespace apart, and so do their times, since   *)
(* every call makes one at most.                                           *)
Keyed(S, t) ==
    \A x \in S :
       /\ x.tab = "atom" => x.at \in Nat /\ x.at <= t
       /\ x.tab \in {"atom", "dig"} => \A y \in S : y.tab = x.tab /\ y.id = x.id => y = x
       /\ x.tab = "atom" => \A y \in S : y.tab = "atom" /\ y.at = x.at => y = x

Sound(S, t) ==
    /\ IsFiniteSet(S) /\ Keyed(S, t)
    /\ \A x \in S : Row(x) /\ (x.tab = "meta" => table = "meta")

Paired(lit, R, t) ==
    /\ DOMAIN lit = Namespaces
    /\ \A ns \in Namespaces : Sound(lit[ns], t)
    /\ R = Dressed(lit)

-----------------------------------------------------------------------------
(* Rows and their dress.                                                   *)

LEMMA NoNsColumn ==
  ASSUME NEW x, Row(x) PROVE "ns" \notin DOMAIN x /\ "tab" \in DOMAIN x
BY DEF Row, Cols

LEMMA DressTab ==
  ASSUME NEW x, Row(x), NEW ns PROVE Dress(ns, x).tab = x.tab
BY NoNsColumn DEF Dress, In

LEMMA DressNs ==
  ASSUME NEW x, Row(x), x.tab # "meta", NEW ns PROVE Dress(ns, x).ns = ns
BY DEF Dress, In

LEMMA DressColumn ==
  ASSUME NEW x, Row(x), x.tab # "meta", NEW ns, NEW k \in DOMAIN x PROVE Dress(ns, x)[k] = x[k]
BY NoNsColumn DEF Dress, In

LEMMA DressIs ==
  ASSUME NEW x, Row(x), x.tab # "meta", NEW ns
  PROVE  Dress(ns, x) = [k \in DOMAIN x \cup {"ns"} |-> IF k = "ns" THEN ns ELSE x[k]]
BY DEF Dress, In

(* A row e that has the columns of x, and ns for its namespace.             *)
Shaped(e, x, ns) ==
    /\ e = [k \in DOMAIN x \cup {"ns"} |-> e[k]]
    /\ e.ns = ns /\ \A k \in DOMAIN x : e[k] = x[k]

LEMMA DressShape ==
  ASSUME NEW x, Row(x), x.tab # "meta", NEW ns PROVE Shaped(Dress(ns, x), x, ns)
<1> DEFINE e == Dress(ns, x)
<1>1. e = [k \in DOMAIN x \cup {"ns"} |-> IF k = "ns" THEN ns ELSE x[k]]
  BY DressIs
<1>2. e.ns = ns /\ \A k \in DOMAIN x : e[k] = x[k]
  BY DressNs, DressColumn
<1> HIDE DEF e
<1>3. e = [k \in DOMAIN x \cup {"ns"} |-> e[k]]
  BY <1>1
<1>4. Shaped(e, x, ns)
  BY <1>2, <1>3 DEF Shaped
<1> QED
  BY <1>4 DEF e

LEMMA MetaIs ==
  ASSUME NEW x, Row(x), x.tab = "meta", NEW ns
  PROVE  /\ DOMAIN x = {"tab", "key", "value"}
         /\ Dress(ns, x) = [x EXCEPT !.key = <<ns, x.key>>]
         /\ Dress(ns, x).key = <<ns, x.key>> /\ Dress(ns, x).value = x.value
BY DEF Dress, PgMetaKey, Row, Cols

LEMMA OfDress ==
  ASSUME NEW x, Row(x), NEW tab, tab # "meta", NEW n, NEW ns
  PROVE  Of(Dress(n, x), tab, ns) <=> x.tab = tab /\ n = ns
<1>1. Dress(n, x).tab = x.tab
  BY DressTab
<1>2. x.tab # "meta" => Dress(n, x).ns = n
  BY DressNs
<1> QED
  BY <1>1, <1>2 DEF Of

(* Nobody else's row looks the same.                                       *)
LEMMA DressApart ==
  ASSUME NEW x, Row(x), NEW y, Row(y), NEW n, NEW m, Dress(n, x) = Dress(m, y)
  PROVE  n = m /\ x = y
<1>1. x.tab = y.tab /\ DOMAIN x = DOMAIN y
  BY DressTab DEF Row
<1>2. CASE x.tab # "meta"
  <2>1. Dress(n, x).ns = n /\ \A k \in DOMAIN x : Dress(n, x)[k] = x[k]
    BY <1>2, DressNs, DressColumn
  <2>2. Dress(m, y).ns = m /\ \A k \in DOMAIN y : Dress(m, y)[k] = y[k]
    BY <1>1, <1>2, DressNs, DressColumn
  <2>3. n = m /\ \A k \in DOMAIN x : x[k] = y[k]
    BY <1>1, <2>1, <2>2
  <2> QED
    BY <1>1, <2>3 DEF Row
<1>3. CASE x.tab = "meta"
  <2>1a. Dress(n, x).key = <<n, x.key>> /\ Dress(n, x).value = x.value
    BY <1>3, MetaIs
  <2>1b. Dress(m, y).key = <<m, y.key>> /\ Dress(m, y).value = y.value
    BY <1>1, <1>3, MetaIs
  <2>1. <<n, x.key>> = <<m, y.key>> /\ x.value = y.value
    BY <2>1a, <2>1b
  <2>2. n = m /\ x.key = y.key
    BY <2>1
  <2>3. \A k \in DOMAIN x : x[k] = y[k]
    BY <1>1, <1>3, <2>1, <2>2, MetaIs
  <2> QED
    BY <1>1, <2>2, <2>3 DEF Row
<1> QED
  BY <1>2, <1>3

LEMMA BareDress ==
  ASSUME NEW x, Row(x), NEW ns PROVE Bare(Dress(ns, x)) = x
<1>1. CASE x.tab # "meta"
  <2>1. DOMAIN Dress(ns, x) = DOMAIN x \cup {"ns"}
    BY <1>1, DressIs
  <2>1a. DOMAIN Dress(ns, x) \ {"ns"} = DOMAIN x
    BY <2>1, NoNsColumn
  <2>1b. Dress(ns, x).tab # "meta"
    BY <1>1, DressTab
  <2>2. Bare(Dress(ns, x)) = [k \in DOMAIN x |-> Dress(ns, x)[k]]
    BY <2>1a, <2>1b DEF Bare
  <2>2a. \A k \in DOMAIN x : Dress(ns, x)[k] = x[k]
    BY <1>1, DressColumn
  <2>3. Bare(Dress(ns, x)) = [k \in DOMAIN x |-> x[k]]
    BY <2>2, <2>2a
  <2> QED
    BY <2>3 DEF Row
<1>2. CASE x.tab = "meta"
  <2> DEFINE d == Dress(ns, x)
  <2>1. /\ d.tab = "meta" /\ d.key = <<ns, x.key>> /\ d = [x EXCEPT !.key = <<ns, x.key>>]
        /\ DOMAIN x = {"tab", "key", "value"} /\ x = [k \in DOMAIN x |-> x[k]]
    BY <1>2, DressTab, MetaIs DEF Row
  <2>2. Bare(d) = [d EXCEPT !.key = x.key]
    BY <2>1 DEF Bare
  <2>3. [d EXCEPT !.key = x.key] = x
    <3> HIDE DEF d
    <3> QED
      BY <2>1
  <2> QED
    BY <2>2, <2>3
<1> QED
  BY <1>1, <1>2

LEMMA BareRowsDressed ==
  ASSUME NEW S, \A x \in S : Row(x), NEW ns PROVE BareRows(DressedRows(ns, S)) = S
BY BareDress DEF BareRows, DressedRows

LEMMA InDressed ==
  ASSUME NEW lit, NEW y
  PROVE  y \in Dressed(lit) <=> \E n \in Namespaces : \E x \in lit[n] : y = Dress(n, x)
BY DEF Dressed, DressedRows

LEMMA RowOf ==
  ASSUME NEW lit, NEW R, NEW t, Paired(lit, R, t), NEW ns \in Namespaces, NEW x \in lit[ns]
  PROVE  Row(x) /\ Dress(ns, x) \in R
BY InDressed DEF Paired, Sound

(* A set of rows is counted alike.                                         *)
LEMMA DressedCount ==
  ASSUME NEW S, IsFiniteSet(S), \A x \in S : Row(x), NEW ns
  PROVE  /\ IsFiniteSet(DressedRows(ns, S))
         /\ Cardinality(DressedRows(ns, S)) = Cardinality(S)
<1> DEFINE f == [x \in S |-> Dress(ns, x)]
<1>1. f \in Surjection(S, DressedRows(ns, S))
  BY DEF Surjection, DressedRows
<1>2. \A x, y \in S : f[x] = f[y] => x = y
  BY DressApart
<1>3. f \in Injection(S, DressedRows(ns, S))
  BY <1>2 DEF Injection, IsInjective, DressedRows
<1> HIDE DEF f
<1> QED
  BY <1>1, <1>3, FS_Surjection

(* The columns of a dressed row are those of the row.                       *)
LEMMA NodeDress ==
  ASSUME NEW x, Row(x), x.tab = "node", NEW ns
  PROVE  LET d == Dress(ns, x)
         IN  /\ DOMAIN x = {"tab", "id", "up", "level", "atom", "text"}
             /\ d.id = x.id /\ d.up = x.up /\ d.level = x.level
             /\ d.atom = x.atom /\ d.text = x.text
<1>1. DOMAIN x = {"tab", "id", "up", "level", "atom", "text"}
  BY DEF Row, Cols
<1> QED
  BY <1>1, DressColumn

LEMMA RawDress ==
  ASSUME NEW x, Row(x), x.tab = "raw", NEW ns
  PROVE  LET d == Dress(ns, x)
         IN  /\ DOMAIN x = {"tab", "id", "thread", "at"}
             /\ d.id = x.id /\ d.thread = x.thread /\ d.at = x.at
<1>1. DOMAIN x = {"tab", "id", "thread", "at"}
  BY DEF Row, Cols
<1> QED
  BY <1>1, DressColumn

LEMMA CandidateDress ==
  ASSUME NEW x, Row(x), x.tab = "cand", NEW ns
  PROVE  LET d == Dress(ns, x)
         IN  /\ DOMAIN x = {"tab", "id", "status", "sig", "evs", "ent", "by", "at"}
             /\ d.id = x.id /\ d.status = x.status /\ d.sig = x.sig
             /\ d.evs = x.evs /\ d.ent = x.ent /\ d.by = x.by
             /\ d.at = x.at
<1>1. DOMAIN x = {"tab", "id", "status", "sig", "evs", "ent", "by", "at"}
  BY DEF Row, Cols
<1> QED
  BY <1>1, DressColumn

LEMMA AtomDress ==
  ASSUME NEW x, Row(x), x.tab = "atom", NEW ns
  PROVE  LET d == Dress(ns, x)
         IN  /\ DOMAIN x = {"tab", "id", "ent", "sig", "at", "dead", "by"}
             /\ d.id = x.id /\ d.ent = x.ent /\ d.sig = x.sig
             /\ d.at = x.at /\ d.dead = x.dead /\ d.by = x.by
<1>1. DOMAIN x = {"tab", "id", "ent", "sig", "at", "dead", "by"}
  BY DEF Row, Cols
<1> QED
  BY <1>1, DressColumn

LEMMA EntityDress ==
  ASSUME NEW x, Row(x), x.tab = "ent", NEW ns
  PROVE  LET d == Dress(ns, x)
         IN  /\ DOMAIN x = {"tab", "id", "name", "type", "count", "at"}
             /\ d.id = x.id /\ d.name = x.name /\ d.type = x.type
             /\ d.count = x.count /\ d.at = x.at
<1>1. DOMAIN x = {"tab", "id", "name", "type", "count", "at"}
  BY DEF Row, Cols
<1> QED
  BY <1>1, DressColumn

LEMMA AliasDress ==
  ASSUME NEW x, Row(x), x.tab = "alias", NEW ns
  PROVE  LET d == Dress(ns, x)
         IN  /\ DOMAIN x = {"tab", "alias", "ent", "at"}
             /\ d.alias = x.alias /\ d.ent = x.ent /\ d.at = x.at
<1>1. DOMAIN x = {"tab", "alias", "ent", "at"}
  BY DEF Row, Cols
<1> QED
  BY <1>1, DressColumn

LEMMA PageDress ==
  ASSUME NEW x, Row(x), x.tab = "page", NEW ns
  PROVE  LET d == Dress(ns, x)
         IN  /\ DOMAIN x = {"tab", "id", "ent", "text", "dirty", "fails", "version", "rev",
                                  "regen", "edit", "at", "made"}
             /\ d.id = x.id /\ d.ent = x.ent /\ d.text = x.text
             /\ d.dirty = x.dirty /\ d.fails = x.fails /\ d.version = x.version
             /\ d.rev = x.rev /\ d.regen = x.regen /\ d.edit = x.edit
             /\ d.at = x.at /\ d.made = x.made
<1>1. DOMAIN x = {"tab", "id", "ent", "text", "dirty", "fails", "version", "rev", "regen",
          "edit", "at", "made"}
  BY DEF Row, Cols
<1> QED
  BY <1>1, DressColumn

LEMMA ActiveDress ==
  ASSUME NEW x, Row(x), x.tab = "active", NEW ns
  PROVE  LET d == Dress(ns, x)
         IN  /\ DOMAIN x = {"tab", "thread", "ent", "at", "source"}
             /\ d.thread = x.thread /\ d.ent = x.ent /\ d.at = x.at
             /\ d.source = x.source
<1>1. DOMAIN x = {"tab", "thread", "ent", "at", "source"}
  BY DEF Row, Cols
<1> QED
  BY <1>1, DressColumn

LEMMA JournalDress ==
  ASSUME NEW x, Row(x), x.tab = "jour", NEW ns
  PROVE  LET d == Dress(ns, x)
         IN  /\ DOMAIN x = {"tab", "id", "at", "action", "target"}
             /\ d.id = x.id /\ d.at = x.at /\ d.action = x.action
             /\ d.target = x.target
<1>1. DOMAIN x = {"tab", "id", "at", "action", "target"}
  BY DEF Row, Cols
<1> QED
  BY <1>1, DressColumn

LEMMA EpisodeDress ==
  ASSUME NEW x, Row(x), x.tab = "epi", NEW ns
  PROVE  LET d == Dress(ns, x)
         IN  /\ DOMAIN x = {"tab", "id", "session", "at"}
             /\ d.id = x.id /\ d.session = x.session /\ d.at = x.at
<1>1. DOMAIN x = {"tab", "id", "session", "at"}
  BY DEF Row, Cols
<1> QED
  BY <1>1, DressColumn

LEMMA DigestDress ==
  ASSUME NEW x, Row(x), x.tab = "dig", NEW ns
  PROVE  LET d == Dress(ns, x)
         IN  /\ DOMAIN x = {"tab", "id", "kind", "key", "at", "text"}
             /\ d.id = x.id /\ d.kind = x.kind /\ d.key = x.key
             /\ d.at = x.at /\ d.text = x.text
<1>1. DOMAIN x = {"tab", "id", "kind", "key", "at", "text"}
  BY DEF Row, Cols
<1> QED
  BY <1>1, DressColumn

-----------------------------------------------------------------------------
(* Statements.  A row more, rows changed and rows gone, on both.            *)

LEMMA PairedApart ==
  ASSUME NEW lit, NEW R, NEW t, Paired(lit, R, t), NEW ns \in Namespaces, NEW S,
         NEW m \in Namespaces, m # ns, NEW x \in lit[m], S \subseteq lit[ns]
  PROVE  Dress(m, x) \notin DressedRows(ns, S)
BY DressApart, RowOf DEF DressedRows

LEMMA InsertPaired ==
  ASSUME NEW lit, NEW R, NEW t \in Nat, Paired(lit, R, t), NEW ns \in Namespaces, NEW r, Row(r),
         r.tab = "meta" => table = "meta",
         r.tab \in {"atom", "dig"} => \A y \in lit[ns] : y.tab = r.tab => y.id # r.id,
         r.tab = "atom" => r.at \in Nat /\ r.at <= t /\
             \A y \in lit[ns] : y.tab = "atom" => y.at # r.at
  PROVE  Paired([lit EXCEPT ![ns] = lit[ns] \cup {r}], R \cup {Dress(ns, r)}, t)
<1> DEFINE res == [lit EXCEPT ![ns] = lit[ns] \cup {r}]
<1>1. /\ DOMAIN res = Namespaces /\ res[ns] = lit[ns] \cup {r}
      /\ \A n \in Namespaces \ {ns} : res[n] = lit[n]
  BY DEF Paired
<1>2. Sound(lit[ns], t)
  BY DEF Paired
<1>3. IsFiniteSet(lit[ns] \cup {r})
  BY <1>2, FS_AddElement DEF Sound
<1>4. Keyed(lit[ns] \cup {r}, t)
  BY <1>2 DEF Sound, Keyed
<1>5. Sound(res[ns], t)
  BY <1>1, <1>2, <1>3, <1>4 DEF Sound
<1>6. \A n \in Namespaces : Sound(res[n], t)
  BY <1>1, <1>5 DEF Paired
<1> HIDE DEF res
<1>7. Dressed(res) = R \cup {Dress(ns, r)}
  <2>1. ASSUME NEW y PROVE y \in Dressed(res) <=> y \in Dressed(lit) \/ y = Dress(ns, r)
    BY <1>1, InDressed
  <2> QED
    BY <2>1 DEF Paired
<1> QED
  BY <1>1, <1>6, <1>7 DEF Paired, res

(* Rows that a statement hits, dressed.                                     *)
LEMMA DeletePaired ==
  ASSUME NEW lit, NEW R, NEW t, Paired(lit, R, t), NEW ns \in Namespaces,
         NEW hit \in SUBSET lit[ns]
  PROVE  Paired([lit EXCEPT ![ns] = lit[ns] \ hit], R \ DressedRows(ns, hit), t)
<1> DEFINE res == [lit EXCEPT ![ns] = lit[ns] \ hit]
<1>1. /\ DOMAIN res = Namespaces /\ res[ns] = lit[ns] \ hit
      /\ \A n \in Namespaces \ {ns} : res[n] = lit[n]
  BY DEF Paired
<1>2. Sound(lit[ns], t)
  BY DEF Paired
<1>3. IsFiniteSet(lit[ns] \ hit)
  BY <1>2, FS_Difference DEF Sound
<1>4. Sound(res[ns], t)
  BY <1>1, <1>2, <1>3 DEF Sound, Keyed
<1>5. \A n \in Namespaces : Sound(res[n], t)
  BY <1>1, <1>4 DEF Paired
<1> HIDE DEF res
<1>6. Dressed(res) = R \ DressedRows(ns, hit)
  <2>1. ASSUME NEW y \in Dressed(res) PROVE y \in R /\ y \notin DressedRows(ns, hit)
    <3>1. PICK n, x : n \in Namespaces /\ x \in res[n] /\ y = Dress(n, x)
      BY <2>1, InDressed
    <3>2. x \in lit[n] /\ (n = ns => x \notin hit)
      BY <1>1, <3>1
    <3>3. Row(x) /\ \A w \in hit : Row(w)
      BY <3>1, <3>2, RowOf
    <3>4. Dress(n, x) \notin DressedRows(ns, hit)
      BY <3>2, <3>3, DressApart DEF DressedRows
    <3> QED
      BY <3>1, <3>2, <3>4, RowOf
  <2>2. ASSUME NEW y \in R, y \notin DressedRows(ns, hit) PROVE y \in Dressed(res)
    <3>1. PICK n, x : n \in Namespaces /\ x \in lit[n] /\ y = Dress(n, x)
      BY <2>2, InDressed DEF Paired
    <3>2. x \in res[n]
      BY <1>1, <2>2, <3>1 DEF DressedRows
    <3> QED
      BY <3>1, <3>2, InDressed
  <2> QED
    BY <2>1, <2>2
<1> QED
  BY <1>1, <1>5, <1>6 DEF Paired, res

Changes(ns, hit, f, h) ==
    \A x \in hit : /\ Row(f[x]) /\ f[x].tab = x.tab /\ h[Dress(ns, x)] = Dress(ns, f[x])
                   /\ x.tab \in {"atom", "dig"} => f[x].id = x.id
                   /\ x.tab = "atom" => f[x].at = x.at

LEMMA UpdatePaired ==
  ASSUME NEW lit, NEW R, NEW t, Paired(lit, R, t), NEW ns \in Namespaces,
         NEW hit \in SUBSET lit[ns], NEW f, NEW h, Changes(ns, hit, f, h)
  PROVE  Paired([lit EXCEPT ![ns] = {IF x \in hit THEN f[x] ELSE x : x \in lit[ns]}],
                {IF y \in DressedRows(ns, hit) THEN h[y] ELSE y : y \in R}, t)
<1> DEFINE g == [x \in lit[ns] |-> IF x \in hit THEN f[x] ELSE x]
           new == {IF x \in hit THEN f[x] ELSE x : x \in lit[ns]}
           after == {IF y \in DressedRows(ns, hit) THEN h[y] ELSE y : y \in R}
           res == [lit EXCEPT ![ns] = new]
<1>1. /\ DOMAIN res = Namespaces /\ res[ns] = new
      /\ \A n \in Namespaces \ {ns} : res[n] = lit[n]
  BY DEF Paired
<1>2. IsFiniteSet(lit[ns]) /\ Keyed(lit[ns], t)
      /\ \A x \in lit[ns] : Row(x) /\ (x.tab = "meta" => table = "meta")
  BY DEF Paired, Sound
<1>3. \A z \in new : \E x \in lit[ns] : z = g[x]
  OBVIOUS
<1>4. \A x \in lit[ns] : g[x] \in new
  OBVIOUS
<1>5. \A x \in lit[ns] : /\ Row(g[x]) /\ g[x].tab = x.tab
                         /\ x.tab \in {"atom", "dig"} => g[x].id = x.id
                         /\ x.tab = "atom" => g[x].at = x.at
  BY <1>2 DEF Changes
<1>6. IsFiniteSet(new)
  <2>1. g \in Surjection(lit[ns], new)
    BY <1>3, <1>4 DEF Surjection
  <2> HIDE DEF g, new
  <2> QED
    BY <1>2, <2>1, FS_Surjection
<1>7. \A x \in lit[ns] : IF x \in hit THEN g[x] = f[x] ELSE g[x] = x
  OBVIOUS
<1>8. \A y : y \in after <=> \E z \in R : y = IF z \in DressedRows(ns, hit) THEN h[z] ELSE z
  OBVIOUS
<1> HIDE DEF g, new, res, after
<1>9. Keyed(new, t)
  BY <1>2, <1>3, <1>5 DEF Keyed
<1>10. Sound(new, t)
  BY <1>2, <1>3, <1>5, <1>6, <1>9 DEF Sound
<1>11. \A n \in Namespaces : Sound(res[n], t)
  BY <1>1, <1>10 DEF Paired
<1>12. Dressed(res) \subseteq after
  <2> SUFFICES ASSUME NEW y \in Dressed(res) PROVE y \in after
    OBVIOUS
  <2>1. PICK n, z : n \in Namespaces /\ z \in res[n] /\ y = Dress(n, z)
    BY InDressed
  <2>2. CASE n = ns
    <3>1. PICK x \in lit[ns] : z = g[x]
      BY <1>1, <1>3, <2>1, <2>2
    <3>2. Dress(ns, x) \in R
      BY <3>1, RowOf
    <3>3. CASE x \in hit
      <4>1. Dress(ns, x) \in DressedRows(ns, hit) /\ h[Dress(ns, x)] = y
        BY <1>7, <2>1, <2>2, <3>1, <3>3 DEF DressedRows, Changes
      <4> QED
        BY <1>8, <3>2, <4>1
    <3>4. CASE x \notin hit
      <4>1. Dress(ns, x) \notin DressedRows(ns, hit)
        BY <1>2, <3>4, DressApart DEF DressedRows
      <4> QED
        BY <1>7, <1>8, <2>1, <2>2, <3>1, <3>2, <3>4, <4>1
    <3> QED
      BY <3>3, <3>4
  <2>3. CASE n # ns
    <3>1. z \in lit[n] /\ y \in R
      BY <1>1, <2>1, <2>3, RowOf
    <3>2. y \notin DressedRows(ns, hit)
      BY <2>1, <2>3, <3>1, PairedApart
    <3> QED
      BY <1>8, <3>1, <3>2
  <2> QED
    BY <2>2, <2>3
<1>13. after \subseteq Dressed(res)
  <2> SUFFICES ASSUME NEW y \in after PROVE y \in Dressed(res)
    OBVIOUS
  <2>1. PICK z \in R : y = IF z \in DressedRows(ns, hit) THEN h[z] ELSE z
    BY <1>8
  <2>2. CASE z \in DressedRows(ns, hit)
    <3>1. PICK x \in hit : z = Dress(ns, x)
      BY <2>2 DEF DressedRows
    <3>2. y = Dress(ns, g[x]) /\ g[x] \in res[ns]
      BY <1>1, <1>4, <1>7, <2>1, <2>2, <3>1 DEF Changes
    <3> QED
      BY <3>2, InDressed
  <2>3. CASE z \notin DressedRows(ns, hit)
    <3>1. PICK n, x : n \in Namespaces /\ x \in lit[n] /\ z = Dress(n, x)
      BY <2>1, InDressed DEF Paired
    <3>2. n = ns => x \notin hit
      BY <2>3, <3>1 DEF DressedRows
    <3>3. x \in res[n]
      <4>1. CASE n = ns
        BY <1>1, <1>4, <1>7, <3>1, <3>2, <4>1
      <4>2. CASE n # ns
        BY <1>1, <3>1, <4>2
      <4> QED
        BY <4>1, <4>2
    <3> QED
      BY <2>1, <2>3, <3>1, <3>3, InDressed
  <2> QED
    BY <2>2, <2>3
<1> QED
  BY <1>1, <1>11, <1>12, <1>13 DEF Paired, res, new, after

(* What a statement of ns selects, and how the rows selected are ordered.   *)
Selects(lit, R, ns, tab, S, T) ==
    /\ S \subseteq lit[ns] /\ \A x \in S : x.tab = tab
    /\ T \subseteq R /\ \A y \in T : Of(y, tab, ns)
    /\ \A x \in lit[ns] : x.tab = tab => (x \in S <=> Dress(ns, x) \in T)

LEMMA Hits ==
  ASSUME NEW lit, NEW R, NEW t, Paired(lit, R, t), NEW ns \in Namespaces, NEW tab, tab # "meta",
         NEW S, NEW T, Selects(lit, R, ns, tab, S, T)
  PROVE  /\ T = DressedRows(ns, S) /\ Cardinality(T) = Cardinality(S)
         /\ IsFiniteSet(S) /\ S \in SUBSET lit[ns] /\ \A x \in S : Row(x)
<1>1. IsFiniteSet(S)
  BY FS_Subset DEF Paired, Sound, Selects
<1>2. \A x \in S : Row(x)
  BY RowOf DEF Selects
<1>3. DressedRows(ns, S) \subseteq T
  BY DEF DressedRows, Selects
<1>4. T \subseteq DressedRows(ns, S)
  <2> SUFFICES ASSUME NEW y \in T PROVE y \in DressedRows(ns, S)
    OBVIOUS
  <2>1. PICK n, x : n \in Namespaces /\ x \in lit[n] /\ y = Dress(n, x)
    BY InDressed DEF Paired, Selects
  <2>2. x.tab = tab /\ n = ns
    BY <2>1, RowOf, OfDress DEF Selects
  <2> QED
    BY <2>1, <2>2 DEF DressedRows, Selects
<1>5. T = DressedRows(ns, S)
  BY <1>3, <1>4
<1>6. Cardinality(T) = Cardinality(S)
  BY <1>1, <1>2, <1>5, DressedCount
<1>7. S \in SUBSET lit[ns]
  BY DEF Selects
<1> QED
  BY <1>1, <1>2, <1>5, <1>6, <1>7

LEMMA LatestDressed ==
  ASSUME NEW S, IsFiniteSet(S), \A x \in S : Row(x) /\ x.tab # "meta" /\ "at" \in DOMAIN x,
         NEW ns, NEW n
  PROVE  /\ Latest(DressedRows(ns, S), n) = DressedRows(ns, Latest(S, n))
         /\ Earliest(DressedRows(ns, S), n) = DressedRows(ns, Earliest(S, n))
<1> DEFINE D == DressedRows(ns, S)
<1>1. \A x \in S : Dress(ns, x).at = x.at
  BY DressColumn
<1>2. ASSUME NEW x \in S
      PROVE  /\ Cardinality({y \in D : y.at > Dress(ns, x).at})
                    = Cardinality({y \in S : y.at > x.at})
             /\ Cardinality({y \in D : y.at < Dress(ns, x).at})
                    = Cardinality({y \in S : y.at < x.at})
  <2> DEFINE A == {y \in S : y.at > x.at}
             B == {y \in S : y.at < x.at}
  <2>1. {y \in D : y.at > Dress(ns, x).at} = DressedRows(ns, A)
    BY <1>1 DEF DressedRows
  <2>2. {y \in D : y.at < Dress(ns, x).at} = DressedRows(ns, B)
    BY <1>1 DEF DressedRows
  <2>3. IsFiniteSet(A) /\ IsFiniteSet(B)
    BY FS_Subset
  <2>4. \A y \in A \cup B : Row(y)
    OBVIOUS
  <2>5. Cardinality(DressedRows(ns, A)) = Cardinality(A)
    <3> HIDE DEF A, B
    <3> QED
      BY <2>3, <2>4, DressedCount
  <2>6. Cardinality(DressedRows(ns, B)) = Cardinality(B)
    <3> HIDE DEF A, B
    <3> QED
      BY <2>3, <2>4, DressedCount
  <2> QED
    BY <2>1, <2>2, <2>5, <2>6
<1>3. \A y \in D : \E x \in S : y = Dress(ns, x)
  BY DEF DressedRows
<1>4. \A x \in S : Dress(ns, x) \in D
  BY DEF DressedRows
<1> HIDE DEF D
<1>5. Latest(D, n) = DressedRows(ns, Latest(S, n))
  BY <1>2, <1>3, <1>4 DEF Latest, DressedRows
<1>6. Earliest(D, n) = DressedRows(ns, Earliest(S, n))
  BY <1>2, <1>3, <1>4 DEF Earliest, DressedRows
<1> QED
  BY <1>5, <1>6 DEF D

LEMMA ListsShown ==
  ASSUME NEW lit, NEW R, NEW t, Paired(lit, R, t), NEW ns \in Namespaces,
         NEW tab \in DOMAIN Cols \ {"meta"}, "at" \in Cols[tab],
         NEW S, NEW T, Selects(lit, R, ns, tab, S, T), NEW n
  PROVE  /\ Latest(S, n) = BareRows(Latest(T, n))
         /\ Earliest(S, n) = BareRows(Earliest(T, n))
<1>1. T = DressedRows(ns, S) /\ IsFiniteSet(S) /\ \A x \in S : Row(x)
  BY Hits
<1>2. \A x \in S : Row(x) /\ x.tab # "meta" /\ "at" \in DOMAIN x
  BY <1>1 DEF Row, Selects
<1>3. Latest(T, n) = DressedRows(ns, Latest(S, n))
  BY <1>1, <1>2, LatestDressed
<1>4. Earliest(T, n) = DressedRows(ns, Earliest(S, n))
  BY <1>1, <1>2, LatestDressed
<1>5. (\A x \in Latest(S, n) : Row(x)) /\ \A x \in Earliest(S, n) : Row(x)
  BY <1>1 DEF Latest, Earliest
<1> QED
  BY <1>3, <1>4, <1>5, BareRowsDressed

LEMMA RowsShown ==
  ASSUME NEW lit, NEW R, NEW t, Paired(lit, R, t), NEW ns \in Namespaces, NEW tab, tab # "meta",
         NEW S, NEW T, Selects(lit, R, ns, tab, S, T)
  PROVE  S = BareRows(T)
<1>1. T = DressedRows(ns, S) /\ \A x \in S : Row(x)
  BY Hits
<1> QED
  BY <1>1, BareRowsDressed

-----------------------------------------------------------------------------
(* Every call does the same to both.                                        *)

Alike(lit, R, ns, l, p, t) == Paired([lit EXCEPT ![ns] = l.rows], p.rows, t) /\ l.out = p.out

LEMMA RefusedAlike ==
  ASSUME NEW lit, NEW R, NEW t, Paired(lit, R, t), NEW ns \in Namespaces
  PROVE  Alike(lit, R, ns, Refused(lit[ns]), Refused(R), t)
<1> DEFINE res == [lit EXCEPT ![ns] = lit[ns]]
<1>1. DOMAIN res = Namespaces /\ \A n \in Namespaces : res[n] = lit[n]
  BY DEF Paired
<1> HIDE DEF res
<1>2. Dressed(res) = Dressed(lit)
  BY <1>1, InDressed
<1>3. Paired(res, R, t)
  BY <1>1, <1>2 DEF Paired
<1> QED
  BY <1>3 DEF Alike, Refused, res

LEMMA UpdateAlike ==
  ASSUME NEW lit, NEW R, NEW t, Paired(lit, R, t), NEW ns \in Namespaces, NEW tab, tab # "meta",
         NEW hit, NEW phit, Selects(lit, R, ns, tab, hit, phit), NEW f, NEW h,
             Changes(ns, hit, f, h)
  PROVE  Alike(lit, R, ns,
               [rows |-> {IF x \in hit THEN f[x] ELSE x : x \in lit[ns]},
                   out |-> Cardinality(hit)],
               [rows |-> {IF y \in phit THEN h[y] ELSE y : y \in R},
                   out |-> Cardinality(phit)], t)
<1>1. /\ hit \in SUBSET lit[ns] /\ phit = DressedRows(ns, hit)
      /\ Cardinality(phit) = Cardinality(hit)
  BY Hits
<1>2. Paired([lit EXCEPT ![ns] = {IF x \in hit THEN f[x] ELSE x : x \in lit[ns]}],
             {IF y \in DressedRows(ns, hit) THEN h[y] ELSE y : y \in R}, t)
  BY <1>1, UpdatePaired
<1> QED
  BY <1>1, <1>2 DEF Alike

(* A key that a row of ns has.                                              *)
LEMMA SameClash ==
  ASSUME NEW lit, NEW R, NEW t, Paired(lit, R, t), NEW ns \in Namespaces, NEW id,
         NEW tab \in {"raw", "cand", "atom", "ent", "jour", "epi", "dig"}
  PROVE  (\E x \in lit[ns] : x.tab = tab /\ x.id = id)
            <=> (\E y \in R : Of(y, tab, ns) /\ y.id = id)
<1>1. ASSUME NEW x, Row(x), x.tab = tab PROVE Dress(ns, x).id = x.id
  <2>1. "id" \in DOMAIN x
    BY <1>1 DEF Row, Cols
  <2> QED
    BY <1>1, <2>1, DressColumn
<1>2. ASSUME NEW x \in lit[ns], x.tab = tab, x.id = id
      PROVE  \E y \in R : Of(y, tab, ns) /\ y.id = id
  <2>1. Row(x) /\ Dress(ns, x) \in R
    BY RowOf
  <2>2. Of(Dress(ns, x), tab, ns) /\ Dress(ns, x).id = id
    BY <1>1, <1>2, <2>1, OfDress
  <2> QED
    BY <2>1, <2>2
<1>3. ASSUME NEW y \in R, Of(y, tab, ns), y.id = id
      PROVE  \E x \in lit[ns] : x.tab = tab /\ x.id = id
  <2>1. PICK n, x : n \in Namespaces /\ x \in lit[n] /\ y = Dress(n, x)
    BY InDressed DEF Paired
  <2>2. Row(x) /\ x.tab = tab /\ n = ns
    BY <1>3, <2>1, RowOf, OfDress
  <2> QED
    BY <1>1, <1>3, <2>1, <2>2
<1> QED
  BY <1>2, <1>3

-----------------------------------------------------------------------------
(* Every query shows the same rows.                                         *)

LEMMA Timed ==
  \A tab \in {"raw", "cand", "atom", "alias", "active", "jour", "epi", "dig"} :
      tab \in DOMAIN Cols \ {"meta"} /\ "at" \in Cols[tab]
BY DEF Cols

LEMMA ListRawSame ==
  ASSUME NEW lit, NEW R, NEW t, Paired(lit, R, t), NEW ns \in Namespaces,
         NEW thread, NEW lo, NEW hi, NEW n
  PROVE  LiteListRaw(lit[ns], thread, lo, hi, n) = BareRows(PgListRaw(R, ns, thread, lo, hi, n))
<1> DEFINE S == {x \in lit[ns] : x.tab = "raw" /\ Matches(thread, x.thread)
               /\ Within(x.at, lo, hi)}
           T == {x \in R : Of(x, "raw", ns) /\ Matches(thread, x.thread)
               /\ Within(x.at, lo, hi)}
<1>1. \A x \in lit[ns] : x.tab = "raw" => (x \in S <=> Dress(ns, x) \in T)
  BY RowOf, OfDress, RawDress
<1>2. Selects(lit, R, ns, "raw", S, T)
  BY <1>1 DEF Selects
<1> HIDE DEF S, T
<1>3. Latest(S, n) = BareRows(Latest(T, n))
  BY <1>2, ListsShown, Timed
<1> QED
  BY <1>3 DEF LiteListRaw, PgListRaw, S, T

LEMMA RawByIdsSame ==
  ASSUME NEW lit, NEW R, NEW t, Paired(lit, R, t), NEW ns \in Namespaces,
         NEW ids
  PROVE  LiteRawByIds(lit[ns], ids) = BareRows(PgRawByIds(R, ns, ids))
<1> DEFINE S == {x \in lit[ns] : x.tab = "raw" /\ x.id \in ids}
           T == {x \in R : Of(x, "raw", ns) /\ x.id \in ids}
<1>1. \A x \in lit[ns] : x.tab = "raw" => (x \in S <=> Dress(ns, x) \in T)
  BY RowOf, OfDress, RawDress
<1>2. Selects(lit, R, ns, "raw", S, T)
  BY <1>1 DEF Selects
<1> HIDE DEF S, T
<1>3. S = BareRows(T)
  BY <1>2, RowsShown
<1> QED
  BY <1>3 DEF LiteRawByIds, PgRawByIds, S, T

LEMMA ListCandidatesSame ==
  ASSUME NEW lit, NEW R, NEW t, Paired(lit, R, t), NEW ns \in Namespaces,
         NEW status, NEW ent, NEW lo, NEW hi, NEW n
  PROVE  LiteListCandidates(lit[ns], status, ent, lo, hi, n)
             = BareRows(PgListCandidates(R, ns, status, ent, lo, hi, n))
<1> DEFINE S == {x \in lit[ns] : x.tab = "cand" /\ Matches(status, x.status)
               /\ Matches(ent, x.ent) /\ Within(x.at, lo, hi)}
           T == {x \in R : Of(x, "cand", ns) /\ Matches(status, x.status)
               /\ Matches(ent, x.ent) /\ Within(x.at, lo, hi)}
<1>1. \A x \in lit[ns] : x.tab = "cand" => (x \in S <=> Dress(ns, x) \in T)
  BY RowOf, OfDress, CandidateDress
<1>2. Selects(lit, R, ns, "cand", S, T)
  BY <1>1 DEF Selects
<1> HIDE DEF S, T
<1>3. Latest(S, n) = BareRows(Latest(T, n))
  BY <1>2, ListsShown, Timed
<1> QED
  BY <1>3 DEF LiteListCandidates, PgListCandidates, S, T

LEMMA ListAtomsSame ==
  ASSUME NEW lit, NEW R, NEW t, Paired(lit, R, t), NEW ns \in Namespaces,
         NEW ent, NEW dead, NEW n
  PROVE  LiteListAtoms(lit[ns], ent, dead, n) = BareRows(PgListAtoms(R, ns, ent, dead, n))
<1> DEFINE S == {x \in lit[ns] : x.tab = "atom" /\ Matches(ent, x.ent) /\ (dead \/ x.dead = 0)}
           T == {x \in R : Of(x, "atom", ns) /\ Matches(ent, x.ent) /\ (dead \/ x.dead = 0)}
<1>1. \A x \in lit[ns] : x.tab = "atom" => (x \in S <=> Dress(ns, x) \in T)
  BY RowOf, OfDress, AtomDress
<1>2. Selects(lit, R, ns, "atom", S, T)
  BY <1>1 DEF Selects
<1> HIDE DEF S, T
<1>3. Latest(S, n) = BareRows(Latest(T, n))
  BY <1>2, ListsShown, Timed
<1> QED
  BY <1>3 DEF LiteListAtoms, PgListAtoms, S, T

LEMMA AtomsInRangeSame ==
  ASSUME NEW lit, NEW R, NEW t, Paired(lit, R, t), NEW ns \in Namespaces,
         NEW ent, NEW lo, NEW hi, NEW dead, NEW n
  PROVE  LiteAtomsInRange(lit[ns], ent, lo, hi, dead, n)
             = BareRows(PgAtomsInRange(R, ns, ent, lo, hi, dead, n))
<1> DEFINE S == {x \in lit[ns] : x.tab = "atom" /\ Within(x.at, lo, hi)
               /\ Matches(ent, x.ent) /\ (dead \/ x.dead = 0)}
           T == {x \in R : Of(x, "atom", ns) /\ Within(x.at, lo, hi) /\ Matches(ent, x.ent)
               /\ (dead \/ x.dead = 0)}
<1>1. \A x \in lit[ns] : x.tab = "atom" => (x \in S <=> Dress(ns, x) \in T)
  BY RowOf, OfDress, AtomDress
<1>2. Selects(lit, R, ns, "atom", S, T)
  BY <1>1 DEF Selects
<1> HIDE DEF S, T
<1>3. Latest(S, n) = BareRows(Latest(T, n))
  BY <1>2, ListsShown, Timed
<1> QED
  BY <1>3 DEF LiteAtomsInRange, PgAtomsInRange, S, T

LEMMA AtomBySignatureSame ==
  ASSUME NEW lit, NEW R, NEW t, Paired(lit, R, t), NEW ns \in Namespaces,
         NEW sig
  PROVE  LiteAtomBySignature(lit[ns], sig) = BareRows(PgAtomBySignature(R, ns, sig))
<1> DEFINE S == {x \in lit[ns] : x.tab = "atom" /\ x.dead = 0 /\ x.sig = sig}
           T == {x \in R : Of(x, "atom", ns) /\ x.dead = 0 /\ x.sig = sig}
<1>1. \A x \in lit[ns] : x.tab = "atom" => (x \in S <=> Dress(ns, x) \in T)
  BY RowOf, OfDress, AtomDress
<1>2. Selects(lit, R, ns, "atom", S, T)
  BY <1>1 DEF Selects
<1> HIDE DEF S, T
<1>3. Earliest(S, 1) = BareRows(Earliest(T, 1))
  BY <1>2, ListsShown, Timed
<1> QED
  BY <1>3 DEF LiteAtomBySignature, PgAtomBySignature, S, T

LEMMA FindByNameSame ==
  ASSUME NEW lit, NEW R, NEW t, Paired(lit, R, t), NEW ns \in Namespaces,
         NEW name, NEW type
  PROVE  LiteFindByName(lit[ns], name, type) = BareRows(PgFindByName(R, ns, name, type))
<1> DEFINE S == {x \in lit[ns] : x.tab = "ent" /\ x.name = name /\ Matches(type, x.type)}
           T == {x \in R : Of(x, "ent", ns) /\ x.name = name /\ Matches(type, x.type)}
<1>1. \A x \in lit[ns] : x.tab = "ent" => (x \in S <=> Dress(ns, x) \in T)
  BY RowOf, OfDress, EntityDress
<1>2. Selects(lit, R, ns, "ent", S, T)
  BY <1>1 DEF Selects
<1> HIDE DEF S, T
<1>3. S = BareRows(T)
  BY <1>2, RowsShown
<1> QED
  BY <1>3 DEF LiteFindByName, PgFindByName, S, T

LEMMA ListEntitiesSame ==
  ASSUME NEW lit, NEW R, NEW t, Paired(lit, R, t), NEW ns \in Namespaces,
         NEW type
  PROVE  LiteListEntities(lit[ns], type) = BareRows(PgListEntities(R, ns, type))
<1> DEFINE S == {x \in lit[ns] : x.tab = "ent" /\ Matches(type, x.type)}
           T == {x \in R : Of(x, "ent", ns) /\ Matches(type, x.type)}
<1>1. \A x \in lit[ns] : x.tab = "ent" => (x \in S <=> Dress(ns, x) \in T)
  BY RowOf, OfDress, EntityDress
<1>2. Selects(lit, R, ns, "ent", S, T)
  BY <1>1 DEF Selects
<1> HIDE DEF S, T
<1>3. S = BareRows(T)
  BY <1>2, RowsShown
<1> QED
  BY <1>3 DEF LiteListEntities, PgListEntities, S, T

LEMMA ListAliasesSame ==
  ASSUME NEW lit, NEW R, NEW t, Paired(lit, R, t), NEW ns \in Namespaces,
         NEW ent, NEW n
  PROVE  LiteListAliases(lit[ns], ent, n) = BareRows(PgListAliases(R, ns, ent, n))
<1> DEFINE S == {x \in lit[ns] : x.tab = "alias" /\ Matches(ent, x.ent)}
           T == {x \in R : Of(x, "alias", ns) /\ Matches(ent, x.ent)}
<1>1. \A x \in lit[ns] : x.tab = "alias" => (x \in S <=> Dress(ns, x) \in T)
  BY RowOf, OfDress, AliasDress
<1>2. Selects(lit, R, ns, "alias", S, T)
  BY <1>1 DEF Selects
<1> HIDE DEF S, T
<1>3. Latest(S, n) = BareRows(Latest(T, n))
  BY <1>2, ListsShown, Timed
<1> QED
  BY <1>3 DEF LiteListAliases, PgListAliases, S, T

LEMMA ListActiveSame ==
  ASSUME NEW lit, NEW R, NEW t, Paired(lit, R, t), NEW ns \in Namespaces,
         NEW thread, NEW n
  PROVE  LiteListActive(lit[ns], thread, n) = BareRows(PgListActive(R, ns, thread, n))
<1> DEFINE S == {x \in lit[ns] : x.tab = "active" /\ x.thread = thread}
           T == {x \in R : Of(x, "active", ns) /\ x.thread = thread}
<1>1. \A x \in lit[ns] : x.tab = "active" => (x \in S <=> Dress(ns, x) \in T)
  BY RowOf, OfDress, ActiveDress
<1>2. Selects(lit, R, ns, "active", S, T)
  BY <1>1 DEF Selects
<1> HIDE DEF S, T
<1>3. Latest(S, n) = BareRows(Latest(T, n))
  BY <1>2, ListsShown, Timed
<1> QED
  BY <1>3 DEF LiteListActive, PgListActive, S, T

LEMMA ListJournalSame ==
  ASSUME NEW lit, NEW R, NEW t, Paired(lit, R, t), NEW ns \in Namespaces,
         NEW action, NEW target, NEW lo, NEW hi, NEW n
  PROVE  LiteListJournal(lit[ns], action, target, lo, hi, n)
             = BareRows(PgListJournal(R, ns, action, target, lo, hi, n))
<1> DEFINE S == {x \in lit[ns] : x.tab = "jour" /\ Matches(action, x.action)
               /\ Matches(target, x.target) /\ Within(x.at, lo, hi)}
           T == {x \in R : Of(x, "jour", ns) /\ Matches(action, x.action)
               /\ Matches(target, x.target) /\ Within(x.at, lo, hi)}
<1>1. \A x \in lit[ns] : x.tab = "jour" => (x \in S <=> Dress(ns, x) \in T)
  BY RowOf, OfDress, JournalDress
<1>2. Selects(lit, R, ns, "jour", S, T)
  BY <1>1 DEF Selects
<1> HIDE DEF S, T
<1>3. Latest(S, n) = BareRows(Latest(T, n))
  BY <1>2, ListsShown, Timed
<1> QED
  BY <1>3 DEF LiteListJournal, PgListJournal, S, T

LEMMA ListEpisodesSame ==
  ASSUME NEW lit, NEW R, NEW t, Paired(lit, R, t), NEW ns \in Namespaces,
         NEW session, NEW lo, NEW hi, NEW n
  PROVE  LiteListEpisodes(lit[ns], session, lo, hi, n)
             = BareRows(PgListEpisodes(R, ns, session, lo, hi, n))
<1> DEFINE S == {x \in lit[ns] : x.tab = "epi" /\ Matches(session, x.session) /\ lo <= x.at
               /\ x.at < hi}
           T == {x \in R : Of(x, "epi", ns) /\ Matches(session, x.session) /\ lo <= x.at
               /\ x.at < hi}
<1>1. \A x \in lit[ns] : x.tab = "epi" => (x \in S <=> Dress(ns, x) \in T)
  BY RowOf, OfDress, EpisodeDress
<1>2. Selects(lit, R, ns, "epi", S, T)
  BY <1>1 DEF Selects
<1> HIDE DEF S, T
<1>3. Latest(S, n) = BareRows(Latest(T, n))
  BY <1>2, ListsShown, Timed
<1> QED
  BY <1>3 DEF LiteListEpisodes, PgListEpisodes, S, T

LEMMA EpisodesInRangeSame ==
  ASSUME NEW lit, NEW R, NEW t, Paired(lit, R, t), NEW ns \in Namespaces,
         NEW lo, NEW hi, NEW n
  PROVE  LiteEpisodesInRange(lit[ns], lo, hi, n) = BareRows(PgEpisodesInRange(R, ns, lo, hi, n))
<1> DEFINE S == {x \in lit[ns] : x.tab = "epi" /\ lo <= x.at /\ x.at < hi}
           T == {x \in R : Of(x, "epi", ns) /\ lo <= x.at /\ x.at < hi}
<1>1. \A x \in lit[ns] : x.tab = "epi" => (x \in S <=> Dress(ns, x) \in T)
  BY RowOf, OfDress, EpisodeDress
<1>2. Selects(lit, R, ns, "epi", S, T)
  BY <1>1 DEF Selects
<1> HIDE DEF S, T
<1>3. Earliest(S, n) = BareRows(Earliest(T, n))
  BY <1>2, ListsShown, Timed
<1> QED
  BY <1>3 DEF LiteEpisodesInRange, PgEpisodesInRange, S, T

LEMMA GetDigestSame ==
  ASSUME NEW lit, NEW R, NEW t, Paired(lit, R, t), NEW ns \in Namespaces,
         NEW kind, NEW key
  PROVE  LiteGetDigest(lit[ns], kind, key) = BareRows(PgGetDigest(R, ns, kind, key))
<1> DEFINE S == {x \in lit[ns] : x.tab = "dig" /\ x.kind = kind /\ x.key = key}
           T == {x \in R : Of(x, "dig", ns) /\ x.kind = kind /\ x.key = key}
<1>1. \A x \in lit[ns] : x.tab = "dig" => (x \in S <=> Dress(ns, x) \in T)
  BY RowOf, OfDress, DigestDress
<1>2. Selects(lit, R, ns, "dig", S, T)
  BY <1>1 DEF Selects
<1> HIDE DEF S, T
<1>3. S = BareRows(T)
  BY <1>2, RowsShown
<1> QED
  BY <1>3 DEF LiteGetDigest, PgGetDigest, S, T

LEMMA ListDigestsSame ==
  ASSUME NEW lit, NEW R, NEW t, Paired(lit, R, t), NEW ns \in Namespaces,
         NEW kind, NEW n
  PROVE  LiteListDigests(lit[ns], kind, n) = BareRows(PgListDigests(R, ns, kind, n))
<1> DEFINE S == {x \in lit[ns] : x.tab = "dig" /\ Matches(kind, x.kind)}
           T == {x \in R : Of(x, "dig", ns) /\ Matches(kind, x.kind)}
<1>1. \A x \in lit[ns] : x.tab = "dig" => (x \in S <=> Dress(ns, x) \in T)
  BY RowOf, OfDress, DigestDress
<1>2. Selects(lit, R, ns, "dig", S, T)
  BY <1>1 DEF Selects
<1> HIDE DEF S, T
<1>3. Latest(S, n) = BareRows(Latest(T, n))
  BY <1>2, ListsShown, Timed
<1> QED
  BY <1>3 DEF LiteListDigests, PgListDigests, S, T

LEMMA FindByAliasSame ==
  ASSUME NEW lit, NEW R, NEW t, Paired(lit, R, t), NEW ns \in Namespaces, NEW alias
  PROVE  LiteFindByAlias(lit[ns], alias) = BareRows(PgFindByAlias(R, ns, alias))
<1> DEFINE S == {x \in lit[ns] : /\ x.tab = "ent"
                                 /\ \E a \in lit[ns] : a.tab = "alias" /\ a.alias = alias
                                        /\ a.ent = x.id}
           T == {x \in R : /\ Of(x, "ent", ns)
                           /\ \E a \in R : Of(a, "alias", ns) /\ a.alias = alias
                                  /\ a.ent = x.id}
<1>1. ASSUME NEW id
      PROVE  (\E a \in lit[ns] : a.tab = "alias" /\ a.alias = alias /\ a.ent = id)
                <=> \E b \in R : Of(b, "alias", ns) /\ b.alias = alias /\ b.ent = id
  <2>1. ASSUME NEW a \in lit[ns], a.tab = "alias", a.alias = alias, a.ent = id
        PROVE  \E b \in R : Of(b, "alias", ns) /\ b.alias = alias /\ b.ent = id
    BY <2>1, RowOf, OfDress, AliasDress
  <2>2. ASSUME NEW b \in R, Of(b, "alias", ns), b.alias = alias, b.ent = id
        PROVE  \E a \in lit[ns] : a.tab = "alias" /\ a.alias = alias /\ a.ent = id
    <3>1. PICK n, x : n \in Namespaces /\ x \in lit[n] /\ b = Dress(n, x)
      BY InDressed DEF Paired
    <3>2. Row(x) /\ x.tab = "alias" /\ n = ns
      BY <2>2, <3>1, RowOf, OfDress
    <3> QED
      BY <2>2, <3>1, <3>2, AliasDress
  <2> QED
    BY <2>1, <2>2
<1>2. \A x \in lit[ns] : x.tab = "ent" => (x \in S <=> Dress(ns, x) \in T)
  BY <1>1, RowOf, OfDress, EntityDress
<1>3. Selects(lit, R, ns, "ent", S, T)
  BY <1>2 DEF Selects
<1> HIDE DEF S, T
<1>4. S = BareRows(T)
  BY <1>3, RowsShown
<1> QED
  BY <1>4 DEF LiteFindByAlias, PgFindByAlias, S, T

LEMMA FindDuplicateSame ==
  ASSUME NEW lit, NEW R, NEW t, Paired(lit, R, t), NEW ns \in Namespaces, NEW sig, NEW evs
  PROVE  LiteFindDuplicate(lit[ns], sig, evs) = PgFindDuplicate(R, ns, sig, evs)
<1>1. ASSUME NEW x \in lit[ns], x.tab = "cand", x.status = "promoted", x.sig = sig, x.evs = evs
      PROVE  \E y \in R : /\ Of(y, "cand", ns) /\ y.status = "promoted" /\ y.sig = sig
                 /\ y.evs = evs
  BY <1>1, RowOf, OfDress, CandidateDress
<1>2. ASSUME NEW y \in R, Of(y, "cand", ns), y.status = "promoted", y.sig = sig, y.evs = evs
      PROVE  \E x \in lit[ns] : /\ x.tab = "cand" /\ x.status = "promoted" /\ x.sig = sig
                 /\ x.evs = evs
  <2>1. PICK n, x : n \in Namespaces /\ x \in lit[n] /\ y = Dress(n, x)
    BY InDressed DEF Paired
  <2>2. Row(x) /\ x.tab = "cand" /\ n = ns
    BY <1>2, <2>1, RowOf, OfDress
  <2> QED
    BY <1>2, <2>1, <2>2, CandidateDress
<1>3. LiteFindDuplicate(lit[ns], sig, evs) <=> PgFindDuplicate(R, ns, sig, evs)
  BY <1>1, <1>2 DEF LiteFindDuplicate, PgFindDuplicate
<1>4. LiteFindDuplicate(lit[ns], sig, evs) \in BOOLEAN
          /\ PgFindDuplicate(R, ns, sig, evs) \in BOOLEAN
  BY DEF LiteFindDuplicate, PgFindDuplicate
<1> QED
  BY <1>3, <1>4

(* The key of another namespace is another key.                             *)
LEMMA MetaKey ==
  ASSUME NEW lit, NEW R, NEW t, Paired(lit, R, t), NEW ns \in Namespaces, NEW key,
         NEW n \in Namespaces, NEW x \in lit[n]
  PROVE  (Dress(n, x).tab = "meta" /\ Dress(n, x).key = PgMetaKey(ns, key))
            <=> x.tab = "meta" /\ n = ns /\ x.key = key
<1>1. Row(x) /\ Dress(n, x).tab = x.tab
  BY RowOf, DressTab
<1>2. x.tab = "meta" => Dress(n, x).key = <<n, x.key>>
  BY <1>1, MetaIs
<1> QED
  BY <1>1, <1>2 DEF PgMetaKey

LEMMA GetMetaSame ==
  ASSUME NEW lit, NEW R, NEW t, Paired(lit, R, t), NEW ns \in Namespaces, NEW key
  PROVE  LiteGetMeta(lit[ns], key) = PgGetMeta(R, ns, key)
<1>1. ASSUME NEW x \in lit[ns], x.tab = "meta", x.key = key
      PROVE  x.value \in PgGetMeta(R, ns, key)
  <2>1. Row(x) /\ Dress(ns, x) \in R
    BY RowOf
  <2>2. Dress(ns, x).tab = "meta" /\ Dress(ns, x).key = PgMetaKey(ns, key)
            /\ Dress(ns, x).value = x.value
    BY <1>1, <2>1, MetaKey, MetaIs
  <2> QED
    BY <2>1, <2>2 DEF PgGetMeta
<1>2. ASSUME NEW y \in R, y.tab = "meta", y.key = PgMetaKey(ns, key)
      PROVE  y.value \in LiteGetMeta(lit[ns], key)
  <2>1. PICK n, x : n \in Namespaces /\ x \in lit[n] /\ y = Dress(n, x)
    BY InDressed DEF Paired
  <2>2. Row(x) /\ x.tab = "meta" /\ n = ns /\ x.key = key
    BY <1>2, <2>1, RowOf, MetaKey
  <2>3. y.value = x.value
    BY <2>1, <2>2, MetaIs
  <2> QED
    BY <2>1, <2>2, <2>3 DEF LiteGetMeta
<1> QED
  BY <1>1, <1>2 DEF LiteGetMeta, PgGetMeta

LEMMA StatsSame ==
  ASSUME NEW lit, NEW R, NEW t, Paired(lit, R, t), NEW ns \in Namespaces
  PROVE  LiteStats(lit[ns]) = PgStats(R, ns)
<1>1. ASSUME NEW tab \in {"raw", "atom", "ent", "page"}
      PROVE  Cardinality({x \in lit[ns] : x.tab = tab /\ (tab = "page" => x.dirty)})
               = Cardinality({x \in R : x.tab = tab /\ x.ns = ns /\ (tab = "page" => x.dirty)})
  <2> DEFINE S == {x \in lit[ns] : x.tab = tab /\ (tab = "page" => x.dirty)}
             T == {x \in R : x.tab = tab /\ x.ns = ns /\ (tab = "page" => x.dirty)}
  <2>1. ASSUME NEW x \in lit[ns], x.tab = tab PROVE x \in S <=> Dress(ns, x) \in T
    <3>1. Row(x) /\ Dress(ns, x) \in R /\ Dress(ns, x).tab = tab /\ Dress(ns, x).ns = ns
      BY <2>1, RowOf, DressTab, DressNs
    <3>2. tab = "page" => Dress(ns, x).dirty = x.dirty
      BY <2>1, <3>1, PageDress
    <3> QED
      BY <2>1, <3>1, <3>2
  <2>2. Selects(lit, R, ns, tab, S, T) /\ tab # "meta"
    BY <2>1 DEF Selects, Of
  <2> HIDE DEF S, T
  <2>3. Cardinality(T) = Cardinality(S)
    BY <2>2, Hits
  <2> QED
    BY <2>3 DEF S, T
<1> QED
  BY <1>1 DEF LiteStats, PgStats

LEMMA ListDirtySame ==
  ASSUME NEW lit, NEW R, NEW t, Paired(lit, R, t), NEW ns \in Namespaces, NEW n
  PROVE  LiteListDirty(lit[ns], n) = BareRows(PgListDirty(R, ns, n))
<1> DEFINE S == {x \in lit[ns] : x.tab = "page" /\ x.dirty}
           T == {x \in R : Of(x, "page", ns) /\ x.dirty}
           first == {x \in S : Cardinality({y \in S : LiteDirtyBefore(y, x)}) < n}
           shown == {x \in T : Cardinality({y \in T : PgDirtyBefore(y, x)}) < n}
<1>1. \A x \in lit[ns] : x.tab = "page" => (x \in S <=> Dress(ns, x) \in T)
  BY RowOf, OfDress, PageDress
<1>2. Selects(lit, R, ns, "page", S, T)
  BY <1>1 DEF Selects
<1>3. \A x \in S : x.tab = "page"
  OBVIOUS
<1> HIDE DEF S, T
<1>4. T = DressedRows(ns, S) /\ IsFiniteSet(S) /\ \A x \in S : Row(x)
  BY <1>2, Hits
<1>5. \A x, y \in S : LiteDirtyBefore(y, x) <=> PgDirtyBefore(Dress(ns, y), Dress(ns, x))
  BY <1>3, <1>4, PageDress DEF LiteDirtyBefore, PgDirtyBefore
<1>6. ASSUME NEW x \in S
      PROVE  Cardinality({y \in T : PgDirtyBefore(y, Dress(ns, x))})
               = Cardinality({y \in S : LiteDirtyBefore(y, x)})
  <2> DEFINE A == {y \in S : LiteDirtyBefore(y, x)}
  <2>1. {y \in T : PgDirtyBefore(y, Dress(ns, x))} = DressedRows(ns, A)
    BY <1>4, <1>5 DEF DressedRows
  <2>2. IsFiniteSet(A) /\ \A y \in A : Row(y)
    BY <1>4, FS_Subset
  <2> HIDE DEF A
  <2>3. Cardinality(DressedRows(ns, A)) = Cardinality(A)
    BY <2>2, DressedCount
  <2> QED
    BY <2>1, <2>3 DEF A
<1>7. shown = DressedRows(ns, first)
  BY <1>4, <1>6 DEF DressedRows
<1>8. \A x \in first : Row(x)
  BY <1>4
<1> HIDE DEF first, shown
<1>9. BareRows(shown) = first
  BY <1>7, <1>8, BareRowsDressed
<1> QED
  BY <1>9 DEF LiteListDirty, PgListDirty, first, shown, S, T

(* The content of a node: that of the one atom it is joined to.             *)
LEMMA ContentSame ==
  ASSUME NEW lit, NEW R, NEW t, Paired(lit, R, t), NEW ns \in Namespaces,
         NEW x \in lit[ns], x.tab = "node"
  PROVE  /\ LiteContent(lit[ns], x) = PgContent(R, ns, Dress(ns, x))
         /\ Dress(ns, x).id = x.id
<1> DEFINE S == {a \in lit[ns] : a.tab = "atom" /\ a.id = x.atom}
           T == {a \in R : Of(a, "atom", ns) /\ a.id = Dress(ns, x).atom}
<1>1. /\ Dress(ns, x).id = x.id /\ Dress(ns, x).atom = x.atom /\ Dress(ns, x).text = x.text
  BY RowOf, NodeDress
<1>2. \A a \in lit[ns] : a.tab = "atom" => (a \in S <=> Dress(ns, a) \in T)
  BY <1>1, RowOf, OfDress, AtomDress
<1>3. Selects(lit, R, ns, "atom", S, T)
  BY <1>2 DEF Selects
<1>4. \A a, b \in S : a = b
  BY DEF Paired, Sound, Keyed
<1>5. \A a \in S : a.tab = "atom"
  OBVIOUS
<1> HIDE DEF S, T
<1>6. T = DressedRows(ns, S) /\ \A a \in S : Row(a)
  BY <1>3, Hits
<1>7. CASE S = {}
  <2>1. T = {}
    BY <1>6, <1>7 DEF DressedRows
  <2> QED
    BY <1>1, <1>7, <2>1 DEF LiteContent, PgContent, S, T
<1>8. CASE S # {}
  <2>1. PICK a : a \in S
    BY <1>8
  <2>2. S = {a} /\ T = {Dress(ns, a)} /\ Dress(ns, a).sig = a.sig
    BY <1>4, <1>5, <1>6, <2>1, AtomDress DEF DressedRows
  <2>3. (CHOOSE b \in S : TRUE) = a /\ (CHOOSE b \in T : TRUE) = Dress(ns, a)
    BY <2>2
  <2>4. LiteContent(lit[ns], x) = a.sig
    BY <1>8, <2>3 DEF LiteContent, S
  <2>5. PgContent(R, ns, Dress(ns, x)) = Dress(ns, a).sig
    BY <2>2, <2>3 DEF PgContent, T
  <2> QED
    BY <1>1, <2>2, <2>4, <2>5
<1> QED
  BY <1>7, <1>8

LEMMA NodesSame ==
  ASSUME NEW lit, NEW R, NEW t, Paired(lit, R, t), NEW ns \in Namespaces, NEW S, NEW T,
         Selects(lit, R, ns, "node", S, T)
  PROVE  LiteNodes(lit[ns], S) = PgNodes(R, ns, T)
<1>1. T = DressedRows(ns, S)
  BY Hits
<1>2. \A x \in S : LiteContent(lit[ns], x) = PgContent(R, ns, Dress(ns, x))
          /\ Dress(ns, x).id = x.id
  BY ContentSame DEF Selects
<1> QED
  BY <1>1, <1>2 DEF LiteNodes, PgNodes, DressedRows

LEMMA GetNodeSame ==
  ASSUME NEW lit, NEW R, NEW t, Paired(lit, R, t), NEW ns \in Namespaces, NEW id
  PROVE  LiteGetNode(lit[ns], id) = PgGetNode(R, ns, id)
<1> DEFINE S == {n \in lit[ns] : n.tab = "node" /\ n.id = id}
           T == {n \in R : Of(n, "node", ns) /\ n.id = id}
<1>1. \A x \in lit[ns] : x.tab = "node" => (x \in S <=> Dress(ns, x) \in T)
  BY RowOf, OfDress, NodeDress
<1>2. Selects(lit, R, ns, "node", S, T)
  BY <1>1 DEF Selects
<1> HIDE DEF S, T
<1>3. LiteNodes(lit[ns], S) = PgNodes(R, ns, T)
  BY <1>2, NodesSame
<1> QED
  BY <1>3 DEF LiteGetNode, PgGetNode, S, T

LEMMA GetNodeByAtomSame ==
  ASSUME NEW lit, NEW R, NEW t, Paired(lit, R, t), NEW ns \in Namespaces, NEW a
  PROVE  LiteGetNodeByAtom(lit[ns], a) = PgGetNodeByAtom(R, ns, a)
<1> DEFINE S == {n \in lit[ns] : n.tab = "node" /\ n.atom = a}
           T == {n \in R : Of(n, "node", ns) /\ n.atom = a}
<1>1. \A x \in lit[ns] : x.tab = "node" => (x \in S <=> Dress(ns, x) \in T)
  BY RowOf, OfDress, NodeDress
<1>2. Selects(lit, R, ns, "node", S, T)
  BY <1>1 DEF Selects
<1> HIDE DEF S, T
<1>3. LiteNodes(lit[ns], S) = PgNodes(R, ns, T)
  BY <1>2, NodesSame
<1> QED
  BY <1>3 DEF LiteGetNodeByAtom, PgGetNodeByAtom, S, T

LEMMA ChildrenSame ==
  ASSUME NEW lit, NEW R, NEW t, Paired(lit, R, t), NEW ns \in Namespaces, NEW up
  PROVE  LiteChildren(lit[ns], up) = PgChildren(R, ns, up)
<1> DEFINE S == {n \in lit[ns] : n.tab = "node" /\ n.up = up}
           T == {n \in R : Of(n, "node", ns) /\ n.up = up}
<1>1. \A x \in lit[ns] : x.tab = "node" => (x \in S <=> Dress(ns, x) \in T)
  BY RowOf, OfDress, NodeDress
<1>2. Selects(lit, R, ns, "node", S, T)
  BY <1>1 DEF Selects
<1> HIDE DEF S, T
<1>3. LiteNodes(lit[ns], S) = PgNodes(R, ns, T)
  BY <1>2, NodesSame
<1> QED
  BY <1>3 DEF LiteChildren, PgChildren, S, T

LEMMA TreeSame ==
  ASSUME NEW lit, NEW R, NEW t, Paired(lit, R, t), NEW ns \in Namespaces
  PROVE  LiteTree(lit[ns]) = PgTree(R, ns)
<1> DEFINE S == {n \in lit[ns] : n.tab = "node"}
           T == {n \in R : Of(n, "node", ns)}
<1>1. \A x \in lit[ns] : x.tab = "node" => (x \in S <=> Dress(ns, x) \in T)
  BY RowOf, OfDress, NodeDress
<1>2. Selects(lit, R, ns, "node", S, T)
  BY <1>1 DEF Selects
<1> HIDE DEF S, T
<1>3. LiteNodes(lit[ns], S) = PgNodes(R, ns, T)
  BY <1>2, NodesSame
<1> QED
  BY <1>3 DEF LiteTree, PgTree, S, T


(* A row changed in columns of its table, and the dressed row alike.        *)
LEMMA Changed ==
  ASSUME NEW x, Row(x), x.tab # "meta", NEW ns,
         NEW z, z = [k \in DOMAIN x |-> z[k]], z.tab = x.tab,
         NEW d, d = [k \in DOMAIN x \cup {"ns"} |-> d[k]], d.ns = ns, \A k \in DOMAIN x
             : d[k] = z[k]
  PROVE  Row(z) /\ d = Dress(ns, z)
<1>1. Row(z) /\ DOMAIN z = DOMAIN x
  BY DEF Row
<1>2. Dress(ns, z) = [k \in DOMAIN x \cup {"ns"} |-> IF k = "ns" THEN ns ELSE z[k]]
  BY <1>1, DressIs
<1>3. \A k \in DOMAIN x \cup {"ns"} : d[k] = IF k = "ns" THEN ns ELSE z[k]
  OBVIOUS
<1> QED
  BY <1>1, <1>2, <1>3

LEMMA RenameAlike ==
  ASSUME NEW lit, NEW R, NEW t, Paired(lit, R, t), NEW ns \in Namespaces,
         NEW id, NEW name
  PROVE  Alike(lit, R, ns, LiteRename(lit[ns], id, name), PgRename(R, ns, id, name), t)
<1> DEFINE hit == {x \in lit[ns] : x.tab = "ent" /\ x.id = id}
           phit == {x \in R : Of(x, "ent", ns) /\ x.id = id}
           f == [x \in hit |-> [x EXCEPT !.name = name]]
           h == [x \in phit |-> [x EXCEPT !.name = name]]
<1>1. \A x \in lit[ns] : x.tab = "ent" => (x \in hit <=> Dress(ns, x) \in phit)
  BY RowOf, OfDress, EntityDress
<1>2. Selects(lit, R, ns, "ent", hit, phit)
  BY <1>1 DEF Selects
<1>4. ASSUME NEW x \in hit
      PROVE  Row(f[x]) /\ f[x].tab = x.tab /\ h[Dress(ns, x)] = Dress(ns, f[x])
  <2>1. x \in lit[ns] /\ x.tab = "ent" /\ Row(x) /\ Dress(ns, x) \in phit
    BY <1>1, RowOf
  <2> DEFINE z == [x EXCEPT !.name = name]
             e == Dress(ns, x)
             d == [e EXCEPT !.name = name]
  <2>2. f[x] = z /\ h[e] = d
    BY <2>1
  <2>3. z = [k \in DOMAIN x |-> z[k]] /\ z.tab = x.tab
    BY <2>1, EntityDress
  <2>4. Shaped(e, x, ns)
    BY <2>1, DressShape
  <2>5. d = [k \in DOMAIN x \cup {"ns"} |-> d[k]] /\ d.ns = ns
    <3> HIDE DEF e
    <3> QED
      BY <2>4 DEF Shaped
  <2>6. \A k \in DOMAIN x : d[k] = z[k]
    <3>1. x = [k \in DOMAIN x |-> x[k]]
      BY <2>1 DEF Row
    <3> HIDE DEF e
    <3> QED
      BY <2>1, <2>4, <3>1, EntityDress DEF Shaped
  <2> HIDE DEF z, d, e
  <2>7. Row(z) /\ d = Dress(ns, z)
    BY <2>1, <2>3, <2>5, <2>6, Changed
  <2> QED
    BY <2>2, <2>3, <2>7 DEF e
<1>6. Changes(ns, hit, f, h)
  BY <1>4 DEF Changes
<1>7. LiteRename(lit[ns], id, name)
        = [rows |-> {IF x \in hit THEN f[x] ELSE x : x \in lit[ns]}, out |-> Cardinality(hit)]
  BY DEF LiteRename, Update
<1>8. PgRename(R, ns, id, name)
        = [rows |-> {IF y \in phit THEN h[y] ELSE y : y \in R}, out |-> Cardinality(phit)]
  BY DEF PgRename, Update
<1> HIDE DEF hit, phit, f, h
<1> QED
  BY <1>2, <1>6, <1>7, <1>8, UpdateAlike

LEMMA RegenAlike ==
  ASSUME NEW lit, NEW R, NEW t, Paired(lit, R, t), NEW ns \in Namespaces,
         NEW ent, NEW text, NEW rev, NEW when
  PROVE  Alike(lit, R, ns, LiteRegen(lit[ns], ent, text, rev, when),
             PgRegen(R, ns, ent, text, rev, when), t)
<1> DEFINE hit == {x \in lit[ns] : x.tab = "page" /\ x.ent = ent /\ (rev = 0 \/ x.rev = rev)}
           phit == {x \in R : Of(x, "page", ns) /\ x.ent = ent /\ (rev = 0 \/ x.rev = rev)}
           f == [x \in hit |-> [x EXCEPT !.text = text, !.dirty = FALSE,
                   !.fails = 0, !.version = @ + 1, !.rev = @ + 1, !.regen = when, !.at = when]]
           h == [x \in phit |-> [x EXCEPT !.text = text, !.dirty = FALSE,
                   !.fails = 0, !.version = @ + 1, !.rev = @ + 1, !.regen = when, !.at = when]]
<1>1. \A x \in lit[ns] : x.tab = "page" => (x \in hit <=> Dress(ns, x) \in phit)
  BY RowOf, OfDress, PageDress
<1>2. Selects(lit, R, ns, "page", hit, phit)
  BY <1>1 DEF Selects
<1>4. ASSUME NEW x \in hit
      PROVE  Row(f[x]) /\ f[x].tab = x.tab /\ h[Dress(ns, x)] = Dress(ns, f[x])
  <2>1. x \in lit[ns] /\ x.tab = "page" /\ Row(x) /\ Dress(ns, x) \in phit
    BY <1>1, RowOf
  <2> DEFINE z == [x EXCEPT !.text = text, !.dirty = FALSE,
                   !.fails = 0, !.version = @ + 1, !.rev = @ + 1, !.regen = when, !.at = when]
             e == Dress(ns, x)
             d == [e EXCEPT !.text = text, !.dirty = FALSE,
                   !.fails = 0, !.version = @ + 1, !.rev = @ + 1, !.regen = when, !.at = when]
  <2>2. f[x] = z /\ h[e] = d
    BY <2>1
  <2>3. z = [k \in DOMAIN x |-> z[k]] /\ z.tab = x.tab
    BY <2>1, PageDress
  <2>4. Shaped(e, x, ns)
    BY <2>1, DressShape
  <2>5. d = [k \in DOMAIN x \cup {"ns"} |-> d[k]] /\ d.ns = ns
    <3> HIDE DEF e
    <3> QED
      BY <2>4 DEF Shaped
  <2>6. \A k \in DOMAIN x : d[k] = z[k]
    <3>1. x = [k \in DOMAIN x |-> x[k]]
      BY <2>1 DEF Row
    <3> HIDE DEF e
    <3> QED
      BY <2>1, <2>4, <3>1, PageDress DEF Shaped
  <2> HIDE DEF z, d, e
  <2>7. Row(z) /\ d = Dress(ns, z)
    BY <2>1, <2>3, <2>5, <2>6, Changed
  <2> QED
    BY <2>2, <2>3, <2>7 DEF e
<1>6. Changes(ns, hit, f, h)
  BY <1>4 DEF Changes
<1>7. LiteRegen(lit[ns], ent, text, rev, when)
        = [rows |-> {IF x \in hit THEN f[x] ELSE x : x \in lit[ns]}, out |-> Cardinality(hit)]
  BY DEF LiteRegen, Update
<1>8. PgRegen(R, ns, ent, text, rev, when)
        = [rows |-> {IF y \in phit THEN h[y] ELSE y : y \in R}, out |-> Cardinality(phit)]
  BY DEF PgRegen, Update
<1> HIDE DEF hit, phit, f, h
<1> QED
  BY <1>2, <1>6, <1>7, <1>8, UpdateAlike

LEMMA UpdateNodeAlike ==
  ASSUME NEW lit, NEW R, NEW t, Paired(lit, R, t), NEW ns \in Namespaces,
         NEW id, NEW text
  PROVE  Alike(lit, R, ns, LiteUpdateNode(lit[ns], id, text), PgUpdateNode(R, ns, id, text), t)
<1> DEFINE hit == {x \in lit[ns] : x.tab = "node" /\ x.id = id}
           phit == {x \in R : Of(x, "node", ns) /\ x.id = id}
           f == [x \in hit |-> [x EXCEPT !.text = text]]
           h == [x \in phit |-> [x EXCEPT !.text = text]]
<1>1. \A x \in lit[ns] : x.tab = "node" => (x \in hit <=> Dress(ns, x) \in phit)
  BY RowOf, OfDress, NodeDress
<1>2. Selects(lit, R, ns, "node", hit, phit)
  BY <1>1 DEF Selects
<1>4. ASSUME NEW x \in hit
      PROVE  Row(f[x]) /\ f[x].tab = x.tab /\ h[Dress(ns, x)] = Dress(ns, f[x])
  <2>1. x \in lit[ns] /\ x.tab = "node" /\ Row(x) /\ Dress(ns, x) \in phit
    BY <1>1, RowOf
  <2> DEFINE z == [x EXCEPT !.text = text]
             e == Dress(ns, x)
             d == [e EXCEPT !.text = text]
  <2>2. f[x] = z /\ h[e] = d
    BY <2>1
  <2>3. z = [k \in DOMAIN x |-> z[k]] /\ z.tab = x.tab
    BY <2>1, NodeDress
  <2>4. Shaped(e, x, ns)
    BY <2>1, DressShape
  <2>5. d = [k \in DOMAIN x \cup {"ns"} |-> d[k]] /\ d.ns = ns
    <3> HIDE DEF e
    <3> QED
      BY <2>4 DEF Shaped
  <2>6. \A k \in DOMAIN x : d[k] = z[k]
    <3>1. x = [k \in DOMAIN x |-> x[k]]
      BY <2>1 DEF Row
    <3> HIDE DEF e
    <3> QED
      BY <2>1, <2>4, <3>1, NodeDress DEF Shaped
  <2> HIDE DEF z, d, e
  <2>7. Row(z) /\ d = Dress(ns, z)
    BY <2>1, <2>3, <2>5, <2>6, Changed
  <2> QED
    BY <2>2, <2>3, <2>7 DEF e
<1>6. Changes(ns, hit, f, h)
  BY <1>4 DEF Changes
<1>7. LiteUpdateNode(lit[ns], id, text)
        = [rows |-> {IF x \in hit THEN f[x] ELSE x : x \in lit[ns]}, out |-> Cardinality(hit)]
  BY DEF LiteUpdateNode, Update
<1>8. PgUpdateNode(R, ns, id, text)
        = [rows |-> {IF y \in phit THEN h[y] ELSE y : y \in R}, out |-> Cardinality(phit)]
  BY DEF PgUpdateNode, Update
<1> HIDE DEF hit, phit, f, h
<1> QED
  BY <1>2, <1>6, <1>7, <1>8, UpdateAlike

LEMMA UpdateStatusAlike ==
  ASSUME NEW lit, NEW R, NEW t, Paired(lit, R, t), NEW ns \in Namespaces,
         NEW id, NEW status, NEW by, NEW ent
  PROVE  Alike(lit, R, ns, LiteUpdateStatus(lit[ns], id, status, by, ent),
             PgUpdateStatus(R, ns, id, status, by, ent), t)
<1> DEFINE hit == {x \in lit[ns] : x.tab = "cand" /\ x.id = id}
           phit == {x \in R : Of(x, "cand", ns) /\ x.id = id}
           f == [x \in hit |-> [x EXCEPT !.status = status,
                   !.by = IF by = None THEN @ ELSE by, !.ent = IF ent = Any THEN @ ELSE ent]]
           h == [x \in phit |-> [x EXCEPT !.status = status,
                   !.by = IF by = None THEN @ ELSE by, !.ent = IF ent = Any THEN @ ELSE ent]]
<1>1. \A x \in lit[ns] : x.tab = "cand" => (x \in hit <=> Dress(ns, x) \in phit)
  BY RowOf, OfDress, CandidateDress
<1>2. Selects(lit, R, ns, "cand", hit, phit)
  BY <1>1 DEF Selects
<1>4. ASSUME NEW x \in hit
      PROVE  Row(f[x]) /\ f[x].tab = x.tab /\ h[Dress(ns, x)] = Dress(ns, f[x])
  <2>1. x \in lit[ns] /\ x.tab = "cand" /\ Row(x) /\ Dress(ns, x) \in phit
    BY <1>1, RowOf
  <2> DEFINE z == [x EXCEPT !.status = status,
                   !.by = IF by = None THEN @ ELSE by, !.ent = IF ent = Any THEN @ ELSE ent]
             e == Dress(ns, x)
             d == [e EXCEPT !.status = status,
                   !.by = IF by = None THEN @ ELSE by, !.ent = IF ent = Any THEN @ ELSE ent]
  <2>2. f[x] = z /\ h[e] = d
    BY <2>1
  <2>3. z = [k \in DOMAIN x |-> z[k]] /\ z.tab = x.tab
    BY <2>1, CandidateDress
  <2>4. Shaped(e, x, ns)
    BY <2>1, DressShape
  <2>5. d = [k \in DOMAIN x \cup {"ns"} |-> d[k]] /\ d.ns = ns
    <3> HIDE DEF e
    <3> QED
      BY <2>4 DEF Shaped
  <2>6. \A k \in DOMAIN x : d[k] = z[k]
    <3>1. x = [k \in DOMAIN x |-> x[k]]
      BY <2>1 DEF Row
    <3> HIDE DEF e
    <3> QED
      BY <2>1, <2>4, <3>1, CandidateDress DEF Shaped
  <2> HIDE DEF z, d, e
  <2>7. Row(z) /\ d = Dress(ns, z)
    BY <2>1, <2>3, <2>5, <2>6, Changed
  <2> QED
    BY <2>2, <2>3, <2>7 DEF e
<1>6. Changes(ns, hit, f, h)
  BY <1>4 DEF Changes
<1>7. LiteUpdateStatus(lit[ns], id, status, by, ent)
        = [rows |-> {IF x \in hit THEN f[x] ELSE x : x \in lit[ns]}, out |-> Cardinality(hit)]
  BY DEF LiteUpdateStatus, Update
<1>8. PgUpdateStatus(R, ns, id, status, by, ent)
        = [rows |-> {IF y \in phit THEN h[y] ELSE y : y \in R}, out |-> Cardinality(phit)]
  BY DEF PgUpdateStatus, Update
<1> HIDE DEF hit, phit, f, h
<1> QED
  BY <1>2, <1>6, <1>7, <1>8, UpdateAlike

LEMMA SupersedeAlike ==
  ASSUME NEW lit, NEW R, NEW t, Paired(lit, R, t), NEW ns \in Namespaces,
         NEW old, NEW new, NEW when
  PROVE  Alike(lit, R, ns, LiteSupersede(lit[ns], old, new, when),
             PgSupersede(R, ns, old, new, when), t)
<1> DEFINE hit == {x \in lit[ns] : x.tab = "atom" /\ x.id = old /\ x.dead = 0}
           phit == {x \in R : Of(x, "atom", ns) /\ x.id = old /\ x.dead = 0}
           f == [x \in hit |-> [x EXCEPT !.by = new, !.dead = when]]
           h == [x \in phit |-> [x EXCEPT !.by = new, !.dead = when]]
<1>1. \A x \in lit[ns] : x.tab = "atom" => (x \in hit <=> Dress(ns, x) \in phit)
  BY RowOf, OfDress, AtomDress
<1>2. Selects(lit, R, ns, "atom", hit, phit)
  BY <1>1 DEF Selects
<1>4. ASSUME NEW x \in hit
      PROVE  Row(f[x]) /\ f[x].tab = x.tab /\ h[Dress(ns, x)] = Dress(ns, f[x])
  <2>1. x \in lit[ns] /\ x.tab = "atom" /\ Row(x) /\ Dress(ns, x) \in phit
    BY <1>1, RowOf
  <2> DEFINE z == [x EXCEPT !.by = new, !.dead = when]
             e == Dress(ns, x)
             d == [e EXCEPT !.by = new, !.dead = when]
  <2>2. f[x] = z /\ h[e] = d
    BY <2>1
  <2>3. z = [k \in DOMAIN x |-> z[k]] /\ z.tab = x.tab
    BY <2>1, AtomDress
  <2>4. Shaped(e, x, ns)
    BY <2>1, DressShape
  <2>5. d = [k \in DOMAIN x \cup {"ns"} |-> d[k]] /\ d.ns = ns
    <3> HIDE DEF e
    <3> QED
      BY <2>4 DEF Shaped
  <2>6. \A k \in DOMAIN x : d[k] = z[k]
    <3>1. x = [k \in DOMAIN x |-> x[k]]
      BY <2>1 DEF Row
    <3> HIDE DEF e
    <3> QED
      BY <2>1, <2>4, <3>1, AtomDress DEF Shaped
  <2> HIDE DEF z, d, e
  <2>7. Row(z) /\ d = Dress(ns, z)
    BY <2>1, <2>3, <2>5, <2>6, Changed
  <2> QED
    BY <2>2, <2>3, <2>7 DEF e
<1>5. ASSUME NEW x \in hit PROVE f[x].id = x.id /\ f[x].at = x.at
  <2>1. DOMAIN x = {"tab", "id", "ent", "sig", "at", "dead", "by"}
    BY RowOf, AtomDress
  <2> QED
    BY <2>1
<1>6. Changes(ns, hit, f, h)
  BY <1>4, <1>5 DEF Changes
<1>7. LiteSupersede(lit[ns], old, new, when)
        = [rows |-> {IF x \in hit THEN f[x] ELSE x : x \in lit[ns]}, out |-> Cardinality(hit)]
  BY DEF LiteSupersede, Update
<1>8. PgSupersede(R, ns, old, new, when)
        = [rows |-> {IF y \in phit THEN h[y] ELSE y : y \in R}, out |-> Cardinality(phit)]
  BY DEF PgSupersede, Update
<1> HIDE DEF hit, phit, f, h
<1> QED
  BY <1>2, <1>6, <1>7, <1>8, UpdateAlike

LEMMA DeprecateAlike ==
  ASSUME NEW lit, NEW R, NEW t, Paired(lit, R, t), NEW ns \in Namespaces,
         NEW id, NEW when
  PROVE  Alike(lit, R, ns, LiteDeprecate(lit[ns], id, when), PgDeprecate(R, ns, id, when), t)
<1> DEFINE hit == {x \in lit[ns] : x.tab = "atom" /\ x.id = id}
           phit == {x \in R : Of(x, "atom", ns) /\ x.id = id}
           f == [x \in hit |-> [x EXCEPT !.dead = when]]
           h == [x \in phit |-> [x EXCEPT !.dead = when]]
<1>1. \A x \in lit[ns] : x.tab = "atom" => (x \in hit <=> Dress(ns, x) \in phit)
  BY RowOf, OfDress, AtomDress
<1>2. Selects(lit, R, ns, "atom", hit, phit)
  BY <1>1 DEF Selects
<1>4. ASSUME NEW x \in hit
      PROVE  Row(f[x]) /\ f[x].tab = x.tab /\ h[Dress(ns, x)] = Dress(ns, f[x])
  <2>1. x \in lit[ns] /\ x.tab = "atom" /\ Row(x) /\ Dress(ns, x) \in phit
    BY <1>1, RowOf
  <2> DEFINE z == [x EXCEPT !.dead = when]
             e == Dress(ns, x)
             d == [e EXCEPT !.dead = when]
  <2>2. f[x] = z /\ h[e] = d
    BY <2>1
  <2>3. z = [k \in DOMAIN x |-> z[k]] /\ z.tab = x.tab
    BY <2>1, AtomDress
  <2>4. Shaped(e, x, ns)
    BY <2>1, DressShape
  <2>5. d = [k \in DOMAIN x \cup {"ns"} |-> d[k]] /\ d.ns = ns
    <3> HIDE DEF e
    <3> QED
      BY <2>4 DEF Shaped
  <2>6. \A k \in DOMAIN x : d[k] = z[k]
    <3>1. x = [k \in DOMAIN x |-> x[k]]
      BY <2>1 DEF Row
    <3> HIDE DEF e
    <3> QED
      BY <2>1, <2>4, <3>1, AtomDress DEF Shaped
  <2> HIDE DEF z, d, e
  <2>7. Row(z) /\ d = Dress(ns, z)
    BY <2>1, <2>3, <2>5, <2>6, Changed
  <2> QED
    BY <2>2, <2>3, <2>7 DEF e
<1>5. ASSUME NEW x \in hit PROVE f[x].id = x.id /\ f[x].at = x.at
  <2>1. DOMAIN x = {"tab", "id", "ent", "sig", "at", "dead", "by"}
    BY RowOf, AtomDress
  <2> QED
    BY <2>1
<1>6. Changes(ns, hit, f, h)
  BY <1>4, <1>5 DEF Changes
<1>7. LiteDeprecate(lit[ns], id, when)
        = [rows |-> {IF x \in hit THEN f[x] ELSE x : x \in lit[ns]}, out |-> Cardinality(hit)]
  BY DEF LiteDeprecate, Update
<1>8. PgDeprecate(R, ns, id, when)
        = [rows |-> {IF y \in phit THEN h[y] ELSE y : y \in R}, out |-> Cardinality(phit)]
  BY DEF PgDeprecate, Update
<1> HIDE DEF hit, phit, f, h
<1> QED
  BY <1>2, <1>6, <1>7, <1>8, UpdateAlike

LEMMA BumpAlike ==
  ASSUME NEW lit, NEW R, NEW t, Paired(lit, R, t), NEW ns \in Namespaces,
         NEW id, NEW delta, NEW when
  PROVE  Alike(lit, R, ns, LiteBump(lit[ns], id, delta, when), PgBump(R, ns, id, delta, when),
             t)
<1> DEFINE hit == {x \in lit[ns] : x.tab = "ent" /\ x.id = id}
           phit == {x \in R : Of(x, "ent", ns) /\ x.id = id}
           f == [x \in hit |-> [x EXCEPT !.count = @ + delta,
                   !.at = IF when = 0 THEN @ ELSE when]]
           h == [x \in phit |-> [x EXCEPT !.count = @ + delta,
                   !.at = IF when = 0 THEN @ ELSE when]]
<1>1. \A x \in lit[ns] : x.tab = "ent" => (x \in hit <=> Dress(ns, x) \in phit)
  BY RowOf, OfDress, EntityDress
<1>2. Selects(lit, R, ns, "ent", hit, phit)
  BY <1>1 DEF Selects
<1>4. ASSUME NEW x \in hit
      PROVE  Row(f[x]) /\ f[x].tab = x.tab /\ h[Dress(ns, x)] = Dress(ns, f[x])
  <2>1. x \in lit[ns] /\ x.tab = "ent" /\ Row(x) /\ Dress(ns, x) \in phit
    BY <1>1, RowOf
  <2> DEFINE z == [x EXCEPT !.count = @ + delta,
                   !.at = IF when = 0 THEN @ ELSE when]
             e == Dress(ns, x)
             d == [e EXCEPT !.count = @ + delta,
                   !.at = IF when = 0 THEN @ ELSE when]
  <2>2. f[x] = z /\ h[e] = d
    BY <2>1
  <2>3. z = [k \in DOMAIN x |-> z[k]] /\ z.tab = x.tab
    BY <2>1, EntityDress
  <2>4. Shaped(e, x, ns)
    BY <2>1, DressShape
  <2>5. d = [k \in DOMAIN x \cup {"ns"} |-> d[k]] /\ d.ns = ns
    <3> HIDE DEF e
    <3> QED
      BY <2>4 DEF Shaped
  <2>6. \A k \in DOMAIN x : d[k] = z[k]
    <3>1. x = [k \in DOMAIN x |-> x[k]]
      BY <2>1 DEF Row
    <3> HIDE DEF e
    <3> QED
      BY <2>1, <2>4, <3>1, EntityDress DEF Shaped
  <2> HIDE DEF z, d, e
  <2>7. Row(z) /\ d = Dress(ns, z)
    BY <2>1, <2>3, <2>5, <2>6, Changed
  <2> QED
    BY <2>2, <2>3, <2>7 DEF e
<1>6. Changes(ns, hit, f, h)
  BY <1>4 DEF Changes
<1>7. LiteBump(lit[ns], id, delta, when)
        = [rows |-> {IF x \in hit THEN f[x] ELSE x : x \in lit[ns]}, out |-> Cardinality(hit)]
  BY DEF LiteBump, Update
<1>8. PgBump(R, ns, id, delta, when)
        = [rows |-> {IF y \in phit THEN h[y] ELSE y : y \in R}, out |-> Cardinality(phit)]
  BY DEF PgBump, Update
<1> HIDE DEF hit, phit, f, h
<1> QED
  BY <1>2, <1>6, <1>7, <1>8, UpdateAlike

LEMMA RegenFailureAlike ==
  ASSUME NEW lit, NEW R, NEW t, Paired(lit, R, t), NEW ns \in Namespaces,
         NEW ent, NEW rev, NEW when
  PROVE  Alike(lit, R, ns, LiteRegenFailure(lit[ns], ent, rev, when),
             PgRegenFailure(R, ns, ent, rev, when), t)
<1> DEFINE hit == {x \in lit[ns] : x.tab = "page" /\ x.ent = ent /\ (rev = 0 \/ x.rev = rev)}
           phit == {x \in R : Of(x, "page", ns) /\ x.ent = ent /\ (rev = 0 \/ x.rev = rev)}
           f == [x \in hit |-> [x EXCEPT !.fails = @ + 1, !.dirty = TRUE,
                   !.at = when]]
           h == [x \in phit |-> [x EXCEPT !.fails = @ + 1, !.dirty = TRUE,
                   !.at = when]]
<1>1. \A x \in lit[ns] : x.tab = "page" => (x \in hit <=> Dress(ns, x) \in phit)
  BY RowOf, OfDress, PageDress
<1>2. Selects(lit, R, ns, "page", hit, phit)
  BY <1>1 DEF Selects
<1>4. ASSUME NEW x \in hit
      PROVE  Row(f[x]) /\ f[x].tab = x.tab /\ h[Dress(ns, x)] = Dress(ns, f[x])
  <2>1. x \in lit[ns] /\ x.tab = "page" /\ Row(x) /\ Dress(ns, x) \in phit
    BY <1>1, RowOf
  <2> DEFINE z == [x EXCEPT !.fails = @ + 1, !.dirty = TRUE,
                   !.at = when]
             e == Dress(ns, x)
             d == [e EXCEPT !.fails = @ + 1, !.dirty = TRUE,
                   !.at = when]
  <2>2. f[x] = z /\ h[e] = d
    BY <2>1
  <2>3. z = [k \in DOMAIN x |-> z[k]] /\ z.tab = x.tab
    BY <2>1, PageDress
  <2>4. Shaped(e, x, ns)
    BY <2>1, DressShape
  <2>5. d = [k \in DOMAIN x \cup {"ns"} |-> d[k]] /\ d.ns = ns
    <3> HIDE DEF e
    <3> QED
      BY <2>4 DEF Shaped
  <2>6. \A k \in DOMAIN x : d[k] = z[k]
    <3>1. x = [k \in DOMAIN x |-> x[k]]
      BY <2>1 DEF Row
    <3> HIDE DEF e
    <3> QED
      BY <2>1, <2>4, <3>1, PageDress DEF Shaped
  <2> HIDE DEF z, d, e
  <2>7. Row(z) /\ d = Dress(ns, z)
    BY <2>1, <2>3, <2>5, <2>6, Changed
  <2> QED
    BY <2>2, <2>3, <2>7 DEF e
<1>6. Changes(ns, hit, f, h)
  BY <1>4 DEF Changes
<1>7. LiteRegenFailure(lit[ns], ent, rev, when)
        = [rows |-> {IF x \in hit THEN f[x] ELSE x : x \in lit[ns]}, out |-> Cardinality(hit)]
  BY DEF LiteRegenFailure, Update
<1>8. PgRegenFailure(R, ns, ent, rev, when)
        = [rows |-> {IF y \in phit THEN h[y] ELSE y : y \in R}, out |-> Cardinality(phit)]
  BY DEF PgRegenFailure, Update
<1> HIDE DEF hit, phit, f, h
<1> QED
  BY <1>2, <1>6, <1>7, <1>8, UpdateAlike

LEMMA UserEditAlike ==
  ASSUME NEW lit, NEW R, NEW t, Paired(lit, R, t), NEW ns \in Namespaces,
         NEW ent, NEW text, NEW when
  PROVE  Alike(lit, R, ns, LiteUserEdit(lit[ns], ent, text, when),
             PgUserEdit(R, ns, ent, text, when), t)
<1> DEFINE hit == {x \in lit[ns] : x.tab = "page" /\ x.ent = ent}
           phit == {x \in R : Of(x, "page", ns) /\ x.ent = ent}
           f == [x \in hit |-> [x EXCEPT !.text = text, !.version = @ + 1,
                   !.rev = @ + 1, !.edit = when, !.at = when]]
           h == [x \in phit |-> [x EXCEPT !.text = text, !.version = @ + 1,
                   !.rev = @ + 1, !.edit = when, !.at = when]]
<1>1. \A x \in lit[ns] : x.tab = "page" => (x \in hit <=> Dress(ns, x) \in phit)
  BY RowOf, OfDress, PageDress
<1>2. Selects(lit, R, ns, "page", hit, phit)
  BY <1>1 DEF Selects
<1>4. ASSUME NEW x \in hit
      PROVE  Row(f[x]) /\ f[x].tab = x.tab /\ h[Dress(ns, x)] = Dress(ns, f[x])
  <2>1. x \in lit[ns] /\ x.tab = "page" /\ Row(x) /\ Dress(ns, x) \in phit
    BY <1>1, RowOf
  <2> DEFINE z == [x EXCEPT !.text = text, !.version = @ + 1,
                   !.rev = @ + 1, !.edit = when, !.at = when]
             e == Dress(ns, x)
             d == [e EXCEPT !.text = text, !.version = @ + 1,
                   !.rev = @ + 1, !.edit = when, !.at = when]
  <2>2. f[x] = z /\ h[e] = d
    BY <2>1
  <2>3. z = [k \in DOMAIN x |-> z[k]] /\ z.tab = x.tab
    BY <2>1, PageDress
  <2>4. Shaped(e, x, ns)
    BY <2>1, DressShape
  <2>5. d = [k \in DOMAIN x \cup {"ns"} |-> d[k]] /\ d.ns = ns
    <3> HIDE DEF e
    <3> QED
      BY <2>4 DEF Shaped
  <2>6. \A k \in DOMAIN x : d[k] = z[k]
    <3>1. x = [k \in DOMAIN x |-> x[k]]
      BY <2>1 DEF Row
    <3> HIDE DEF e
    <3> QED
      BY <2>1, <2>4, <3>1, PageDress DEF Shaped
  <2> HIDE DEF z, d, e
  <2>7. Row(z) /\ d = Dress(ns, z)
    BY <2>1, <2>3, <2>5, <2>6, Changed
  <2> QED
    BY <2>2, <2>3, <2>7 DEF e
<1>6. Changes(ns, hit, f, h)
  BY <1>4 DEF Changes
<1>7. LiteUserEdit(lit[ns], ent, text, when)
        = [rows |-> {IF x \in hit THEN f[x] ELSE x : x \in lit[ns]}, out |-> Cardinality(hit)]
  BY DEF LiteUserEdit, Update
<1>8. PgUserEdit(R, ns, ent, text, when)
        = [rows |-> {IF y \in phit THEN h[y] ELSE y : y \in R}, out |-> Cardinality(phit)]
  BY DEF PgUserEdit, Update
<1> HIDE DEF hit, phit, f, h
<1> QED
  BY <1>2, <1>6, <1>7, <1>8, UpdateAlike

(* An INSERT whose clash is the same on both.                               *)
LEMMA InsertAlike ==
  ASSUME NEW lit, NEW R, NEW t \in Nat, Paired(lit, R, t), NEW ns \in Namespaces, NEW r, Row(r),
         r.tab \in {"raw", "cand", "atom", "ent", "jour", "epi", "dig"},
         r.tab = "atom" => r.at \in Nat /\ r.at <= t /\
             \A y \in lit[ns] : y.tab = "atom" => y.at # r.at
  PROVE  Alike(lit, R, ns,
               IF \E x \in lit[ns] : x.tab = r.tab /\ x.id = r.id THEN Refused(lit[ns])
               ELSE [rows |-> lit[ns] \cup {r}, out |-> "done"],
               IF \E y \in R : Of(y, r.tab, ns) /\ y.id = r.id THEN Refused(R)
               ELSE [rows |-> R \cup {In(ns, r)}, out |-> "done"], t)
<1> DEFINE there == \E x \in lit[ns] : x.tab = r.tab /\ x.id = r.id
           pthere == \E y \in R : Of(y, r.tab, ns) /\ y.id = r.id
<1>1. there <=> pthere
  BY SameClash
<1>2. CASE there
  <2>1. pthere
    BY <1>1, <1>2
  <2>2. Alike(lit, R, ns, Refused(lit[ns]), Refused(R), t)
    BY RefusedAlike
  <2> QED
    BY <1>2, <2>1, <2>2
<1>3. CASE ~there
  <2>1. ~pthere
    BY <1>1, <1>3
  <2>2. Paired([lit EXCEPT ![ns] = lit[ns] \cup {r}], R \cup {Dress(ns, r)}, t)
    BY <1>3, InsertPaired
  <2>3. Dress(ns, r) = In(ns, r)
    BY DEF Dress
  <2>4. Alike(lit, R, ns, [rows |-> lit[ns] \cup {r}, out |-> "done"],
              [rows |-> R \cup {In(ns, r)}, out |-> "done"], t)
    BY <2>2, <2>3 DEF Alike
  <2> QED
    BY <1>3, <2>1, <2>4
<1> QED
  BY <1>2, <1>3

LEMMA SaveRawAlike ==
  ASSUME NEW lit, NEW R, NEW t \in Nat, Paired(lit, R, t), NEW ns \in Namespaces,
         NEW e, Row(e), e.tab = "raw"
  PROVE  Alike(lit, R, ns, LiteSaveRaw(lit[ns], e), PgSaveRaw(R, ns, e), t)
BY InsertAlike DEF LiteSaveRaw, PgSaveRaw, Insert

LEMMA SaveCandidateAlike ==
  ASSUME NEW lit, NEW R, NEW t \in Nat, Paired(lit, R, t), NEW ns \in Namespaces,
         NEW c, Row(c), c.tab = "cand"
  PROVE  Alike(lit, R, ns, LiteSaveCandidate(lit[ns], c), PgSaveCandidate(R, ns, c), t)
BY InsertAlike DEF LiteSaveCandidate, PgSaveCandidate, Insert

LEMMA SaveEntityAlike ==
  ASSUME NEW lit, NEW R, NEW t \in Nat, Paired(lit, R, t), NEW ns \in Namespaces,
         NEW e, Row(e), e.tab = "ent"
  PROVE  Alike(lit, R, ns, LiteSaveEntity(lit[ns], e), PgSaveEntity(R, ns, e), t)
BY InsertAlike DEF LiteSaveEntity, PgSaveEntity, Insert

LEMMA SaveEpisodeAlike ==
  ASSUME NEW lit, NEW R, NEW t \in Nat, Paired(lit, R, t), NEW ns \in Namespaces,
         NEW e, Row(e), e.tab = "epi"
  PROVE  Alike(lit, R, ns, LiteSaveEpisode(lit[ns], e), PgSaveEpisode(R, ns, e), t)
BY InsertAlike DEF LiteSaveEpisode, PgSaveEpisode, Insert

LEMMA AppendJournalAlike ==
  ASSUME NEW lit, NEW R, NEW t \in Nat, Paired(lit, R, t), NEW ns \in Namespaces,
         NEW j, Row(j), j.tab = "jour"
  PROVE  Alike(lit, R, ns, LiteAppendJournal(lit[ns], j), PgAppendJournal(R, ns, j), t)
BY InsertAlike DEF LiteAppendJournal, PgAppendJournal, Insert

(* The clock has moved on since the youngest atom was made.                 *)
LEMMA SaveAtomAlike ==
  ASSUME NEW lit, NEW R, NEW t \in Nat, Paired(lit, R, t), NEW ns \in Namespaces,
         NEW a, Row(a), a.tab = "atom", a.at = t, \A y \in lit[ns] : y.tab = "atom" => y.at < t
  PROVE  Alike(lit, R, ns, LiteSaveAtom(lit[ns], a), PgSaveAtom(R, ns, a), t)
<1>1. \A y \in lit[ns] : y.tab = "atom" => y.at # a.at
  BY DEF Paired, Sound, Keyed
<1> QED
  BY <1>1, InsertAlike DEF LiteSaveAtom, PgSaveAtom, Insert

LEMMA DeleteAlike ==
  ASSUME NEW lit, NEW R, NEW t, Paired(lit, R, t), NEW ns \in Namespaces, NEW tab, tab # "meta",
         NEW hit, NEW phit, Selects(lit, R, ns, tab, hit, phit)
  PROVE  /\ Alike(lit, R, ns, [rows |-> lit[ns] \ hit, out |-> Cardinality(hit)],
                  [rows |-> R \ phit, out |-> Cardinality(phit)], t)
         /\ \A word : Alike(lit, R, ns, [rows |-> lit[ns] \ hit, out |-> word],
                            [rows |-> R \ phit, out |-> word], t)
<1>1. /\ hit \in SUBSET lit[ns] /\ phit = DressedRows(ns, hit)
      /\ Cardinality(phit) = Cardinality(hit)
  BY Hits
<1>2. Paired([lit EXCEPT ![ns] = lit[ns] \ hit], R \ DressedRows(ns, hit), t)
  BY <1>1, DeletePaired
<1> QED
  BY <1>1, <1>2 DEF Alike

LEMMA UpsertAlike ==
  ASSUME NEW lit, NEW R, NEW t \in Nat, Paired(lit, R, t), NEW ns \in Namespaces, NEW tab,
         tab \notin {"meta", "atom", "dig"}, NEW r, Row(r), r.tab = tab,
         NEW hit, NEW phit, Selects(lit, R, ns, tab, hit, phit), NEW f, NEW h,
             Changes(ns, hit, f, h)
  PROVE  Alike(lit, R, ns,
               [rows |-> IF hit # {} THEN {IF x \in hit THEN f[x] ELSE x : x \in lit[ns]}
                         ELSE lit[ns] \cup {r}, out |-> "done"],
               [rows |-> IF phit # {} THEN {IF y \in phit THEN h[y] ELSE y : y \in R}
                         ELSE R \cup {In(ns, r)}, out |-> "done"], t)
<1>0. tab # "meta"
  OBVIOUS
<1>1. hit \in SUBSET lit[ns] /\ phit = DressedRows(ns, hit)
  BY <1>0, Hits
<1>2. hit # {} <=> phit # {}
  BY <1>1 DEF DressedRows
<1>3. Paired([lit EXCEPT ![ns] = {IF x \in hit THEN f[x] ELSE x : x \in lit[ns]}],
             {IF y \in phit THEN h[y] ELSE y : y \in R}, t)
  BY <1>1, UpdatePaired
<1>4. Paired([lit EXCEPT ![ns] = lit[ns] \cup {r}], R \cup {In(ns, r)}, t)
  BY InsertPaired DEF Dress
<1>5. CASE hit # {}
  BY <1>2, <1>3, <1>5 DEF Alike
<1>6. CASE hit = {}
  BY <1>2, <1>4, <1>6 DEF Alike
<1> QED
  BY <1>5, <1>6

(* Rows that a list shows, as they lie in the shared tables.                *)
LEMMA ListsDressed ==
  ASSUME NEW lit, NEW R, NEW t, Paired(lit, R, t), NEW ns \in Namespaces,
         NEW tab \in DOMAIN Cols \ {"meta"}, "at" \in Cols[tab],
         NEW S, NEW T, Selects(lit, R, ns, tab, S, T), NEW n
  PROVE  /\ Latest(T, n) = DressedRows(ns, Latest(S, n))
         /\ Earliest(T, n) = DressedRows(ns, Earliest(S, n))
<1>1. T = DressedRows(ns, S) /\ IsFiniteSet(S) /\ \A x \in S : Row(x)
  BY Hits
<1>2. \A x \in S : Row(x) /\ x.tab # "meta" /\ "at" \in DOMAIN x
  BY <1>1 DEF Row, Selects
<1> QED
  BY <1>1, <1>2, LatestDressed

LEMMA DeleteRawBeforeAlike ==
  ASSUME NEW lit, NEW R, NEW t, Paired(lit, R, t), NEW ns \in Namespaces, NEW at
  PROVE  Alike(lit, R, ns, LiteDeleteRawBefore(lit[ns], at), PgDeleteRawBefore(R, ns, at), t)
<1> DEFINE hit == {x \in lit[ns] : x.tab = "raw" /\ x.at < at}
           phit == {x \in R : Of(x, "raw", ns) /\ x.at < at}
<1>1. \A x \in lit[ns] : x.tab = "raw" => (x \in hit <=> Dress(ns, x) \in phit)
  BY RowOf, OfDress, RawDress
<1>2. Selects(lit, R, ns, "raw", hit, phit)
  BY <1>1 DEF Selects
<1>3. LiteDeleteRawBefore(lit[ns], at) = [rows |-> lit[ns] \ hit, out |-> Cardinality(hit)]
  BY DEF LiteDeleteRawBefore, Delete
<1>4. PgDeleteRawBefore(R, ns, at) = [rows |-> R \ phit, out |-> Cardinality(phit)]
  BY DEF PgDeleteRawBefore, Delete
<1> HIDE DEF hit, phit
<1> QED
  BY <1>2, <1>3, <1>4, DeleteAlike

LEMMA EvictActiveAlike ==
  ASSUME NEW lit, NEW R, NEW t, Paired(lit, R, t), NEW ns \in Namespaces, NEW thread, NEW keep
  PROVE  Alike(lit, R, ns, LiteEvictActive(lit[ns], thread, keep),
             PgEvictActive(R, ns, thread, keep), t)
<1> DEFINE S == {x \in lit[ns] : x.tab = "active" /\ x.thread = thread}
           T == {x \in R : Of(x, "active", ns) /\ x.thread = thread}
           kept == {x.ent : x \in Latest(S, keep)}
           pkept == {x.ent : x \in Latest(T, keep)}
           hit == {x \in lit[ns] : x.tab = "active" /\ x.thread = thread /\ x.ent \notin kept}
           phit == {x \in R : Of(x, "active", ns) /\ x.thread = thread /\ x.ent \notin pkept}
<1>1. \A x \in lit[ns] : x.tab = "active" => (x \in S <=> Dress(ns, x) \in T)
  BY RowOf, OfDress, ActiveDress
<1>2. Selects(lit, R, ns, "active", S, T)
  BY <1>1 DEF Selects
<1>3. Latest(T, keep) = DressedRows(ns, Latest(S, keep))
  <2> HIDE DEF S, T
  <2> QED
    BY <1>2, ListsDressed, Timed
<1>4. \A x \in Latest(S, keep) : Dress(ns, x).ent = x.ent
  BY RowOf, ActiveDress DEF Latest
<1>5. pkept = kept
  <2> HIDE DEF S, T
  <2> QED
    BY <1>3, <1>4 DEF DressedRows
<1>6. LiteEvictActive(lit[ns], thread, keep) = [rows |-> lit[ns] \ hit,
          out |-> Cardinality(hit)]
  BY DEF LiteEvictActive, LiteListActive, Delete
<1>7. PgEvictActive(R, ns, thread, keep) = [rows |-> R \ phit, out |-> Cardinality(phit)]
  BY DEF PgEvictActive, PgListActive, Delete
<1> HIDE DEF kept, pkept
<1>8. \A x \in lit[ns] : x.tab = "active" => (x \in hit <=> Dress(ns, x) \in phit)
  BY <1>5, RowOf, OfDress, ActiveDress
<1>9. Selects(lit, R, ns, "active", hit, phit)
  BY <1>8 DEF Selects
<1> HIDE DEF hit, phit
<1> QED
  BY <1>6, <1>7, <1>9, DeleteAlike

LEMMA DeleteJournalAlike ==
  ASSUME NEW lit, NEW R, NEW t, Paired(lit, R, t), NEW ns \in Namespaces,
         NEW actions, NEW before, NEW n
  PROVE  Alike(lit, R, ns, LiteDeleteJournal(lit[ns], actions, before, n),
               PgDeleteJournal(R, ns, actions, before, n), t)
<1> DEFINE S == {x \in lit[ns] : x.tab = "jour" /\ x.at < before /\ x.action \in actions}
           T == {x \in R : Of(x, "jour", ns) /\ x.at < before /\ x.action \in actions}
           ids == {x.id : x \in Earliest(S, n)}
           pids == {x.id : x \in Earliest(T, n)}
           hit == {x \in lit[ns] : x.tab = "jour" /\ x.id \in ids}
           phit == {x \in R : Of(x, "jour", ns) /\ x.id \in pids}
<1>1. \A x \in lit[ns] : x.tab = "jour" => (x \in S <=> Dress(ns, x) \in T)
  BY RowOf, OfDress, JournalDress
<1>2. Selects(lit, R, ns, "jour", S, T)
  BY <1>1 DEF Selects
<1>3. Earliest(T, n) = DressedRows(ns, Earliest(S, n))
  <2> HIDE DEF S, T
  <2> QED
    BY <1>2, ListsDressed, Timed
<1>4. \A x \in Earliest(S, n) : Dress(ns, x).id = x.id
  BY RowOf, JournalDress DEF Earliest
<1>5. pids = ids
  <2> HIDE DEF S, T
  <2> QED
    BY <1>3, <1>4 DEF DressedRows
<1>6. LiteDeleteJournal(lit[ns], actions, before, n)
        = IF actions = {} \/ n < 1 THEN [rows |-> lit[ns], out |-> 0]
          ELSE [rows |-> lit[ns] \ hit, out |-> Cardinality(hit)]
  BY DEF LiteDeleteJournal, Delete
<1>7. PgDeleteJournal(R, ns, actions, before, n)
        = IF actions = {} \/ n < 1 THEN [rows |-> R, out |-> 0]
          ELSE [rows |-> R \ phit, out |-> Cardinality(phit)]
  BY DEF PgDeleteJournal, Delete
<1> HIDE DEF ids, pids
<1>8. \A x \in lit[ns] : x.tab = "jour" => (x \in hit <=> Dress(ns, x) \in phit)
  BY <1>5, RowOf, OfDress, JournalDress
<1>9. Selects(lit, R, ns, "jour", hit, phit)
  BY <1>8 DEF Selects
<1> HIDE DEF hit, phit
<1>10. Alike(lit, R, ns, [rows |-> lit[ns] \ hit, out |-> Cardinality(hit)],
             [rows |-> R \ phit, out |-> Cardinality(phit)], t)
  BY <1>9, DeleteAlike
<1>11. Alike(lit, R, ns, [rows |-> lit[ns], out |-> 0], [rows |-> R, out |-> 0], t)
  BY RefusedAlike DEF Alike, Refused
<1> QED
  BY <1>6, <1>7, <1>10, <1>11

(* Two events are saved or none.                                            *)
LEMMA SaveBatchAlike ==
  ASSUME NEW lit, NEW R, NEW t \in Nat, Paired(lit, R, t), NEW ns \in Namespaces,
         NEW e, Row(e), e.tab = "raw", NEW f, Row(f), f.tab = "raw"
  PROVE  Alike(lit, R, ns, LiteSaveBatch(lit[ns], e, f), PgSaveBatch(R, ns, e, f), t)
<1> DEFINE first == LiteSaveRaw(lit[ns], e)
           pfirst == PgSaveRaw(R, ns, e)
           mid == [lit EXCEPT ![ns] = first.rows]
           second == LiteSaveRaw(first.rows, f)
           psecond == PgSaveRaw(pfirst.rows, ns, f)
<1>1. Paired(mid, pfirst.rows, t) /\ first.out = pfirst.out
  BY SaveRawAlike DEF Alike
<1>2. mid[ns] = first.rows
  BY DEF Paired
<1>3. [mid EXCEPT ![ns] = second.rows] = [lit EXCEPT ![ns] = second.rows]
  BY DEF Paired
<1>4. LiteSaveBatch(lit[ns], e, f)
        = IF "raised" \in {first.out, second.out} THEN Refused(lit[ns]) ELSE second
  BY DEF LiteSaveBatch
<1>5. PgSaveBatch(R, ns, e, f)
        = IF "raised" \in {pfirst.out, psecond.out} THEN Refused(R) ELSE psecond
  BY DEF PgSaveBatch
<1> HIDE DEF mid, first, pfirst
<1>6. Alike(mid, pfirst.rows, ns, LiteSaveRaw(mid[ns], f), PgSaveRaw(pfirst.rows, ns, f), t)
  BY <1>1, SaveRawAlike
<1>7. Alike(lit, R, ns, second, psecond, t)
  <2>1. Alike(mid, pfirst.rows, ns, second, psecond, t)
    BY <1>2, <1>6
  <2> HIDE DEF second, psecond
  <2> QED
    BY <1>3, <2>1 DEF Alike, second
<1>8. second.out = psecond.out
  BY <1>7 DEF Alike
<1> HIDE DEF second, psecond
<1> QED
  BY <1>1, <1>4, <1>5, <1>7, <1>8, RefusedAlike

(* A row of a table without further keys, unless it clashes.                *)
LEMMA RowAlike ==
  ASSUME NEW lit, NEW R, NEW t \in Nat, Paired(lit, R, t), NEW ns \in Namespaces,
         NEW r, Row(r), r.tab \notin {"meta", "atom", "dig"}
  PROVE  /\ Paired([lit EXCEPT ![ns] = lit[ns] \cup {r}], R \cup {In(ns, r)}, t)
         /\ Paired([lit EXCEPT ![ns] = lit[ns]], R, t)
<1>1. Paired([lit EXCEPT ![ns] = lit[ns] \cup {r}], R \cup {Dress(ns, r)}, t)
  BY InsertPaired
<1>2. Dress(ns, r) = In(ns, r)
  BY DEF Dress
<1>3. Paired([lit EXCEPT ![ns] = lit[ns]], R, t)
  BY RefusedAlike DEF Alike, Refused
<1> QED
  BY <1>1, <1>2, <1>3

LEMMA SaveAliasAlike ==
  ASSUME NEW lit, NEW R, NEW t \in Nat, Paired(lit, R, t), NEW ns \in Namespaces,
         NEW a, Row(a), a.tab = "alias"
  PROVE  Alike(lit, R, ns, LiteSaveAlias(lit[ns], a), PgSaveAlias(R, ns, a), t)
<1> DEFINE there == \E x \in lit[ns] : x.tab = "alias" /\ x.alias = a.alias /\ x.ent = a.ent
           pthere == \E x \in R : Of(x, "alias", ns) /\ x.alias = a.alias /\ x.ent = a.ent
<1>1. there => pthere
  BY RowOf, OfDress, AliasDress
<1>2. ASSUME NEW y \in R, Of(y, "alias", ns), y.alias = a.alias, y.ent = a.ent PROVE there
  <2>1. PICK n, x : n \in Namespaces /\ x \in lit[n] /\ y = Dress(n, x)
    BY InDressed DEF Paired
  <2>2. Row(x) /\ x.tab = "alias" /\ n = ns
    BY <1>2, <2>1, RowOf, OfDress
  <2> QED
    BY <1>2, <2>1, <2>2, AliasDress
<1>3. there <=> pthere
  BY <1>1, <1>2
<1>4. LiteSaveAlias(lit[ns], a)
        = [rows |-> IF there THEN lit[ns] ELSE lit[ns] \cup {a}, out |-> "done"]
  BY DEF LiteSaveAlias
<1>5. PgSaveAlias(R, ns, a) = [rows |-> IF pthere THEN R ELSE R \cup {In(ns, a)},
          out |-> "done"]
  BY DEF PgSaveAlias
<1> HIDE DEF there, pthere
<1>6. /\ Paired([lit EXCEPT ![ns] = lit[ns] \cup {a}], R \cup {In(ns, a)}, t)
      /\ Paired([lit EXCEPT ![ns] = lit[ns]], R, t)
  BY RowAlike
<1>7. CASE there
  BY <1>3, <1>4, <1>5, <1>6, <1>7 DEF Alike
<1>8. CASE ~there
  BY <1>3, <1>4, <1>5, <1>6, <1>8 DEF Alike
<1> QED
  BY <1>7, <1>8

(* The parent is there, so the self-reference of Postgres never bites.      *)
LEMMA SaveNodeAlike ==
  ASSUME NEW lit, NEW R, NEW t \in Nat, Paired(lit, R, t), NEW ns \in Namespaces,
         NEW n, Row(n), n.tab = "node",
         n.up \in {None} \cup {x.id : x \in {y \in lit[ns] : y.tab = "node"}}
  PROVE  Alike(lit, R, ns, LiteSaveNode(lit[ns], n), PgSaveNode(R, ns, n), t)
<1> DEFINE r == [n EXCEPT !.text = IF n.level = "leaf" THEN None ELSE @]
           Same(x) == x.id = n.id \/ (n.atom # None /\ x.atom = n.atom)
           there == \E x \in lit[ns] : x.tab = "node" /\ Same(x)
           pthere == \E x \in R : Of(x, "node", ns) /\ Same(x)
           bad == (n.level = "leaf") # (n.atom # None)
<1>1. Row(r) /\ r.tab = "node"
  <2>1. DOMAIN n = {"tab", "id", "up", "level", "atom", "text"}
    BY NodeDress
  <2>2. r.tab = "node" /\ DOMAIN r = DOMAIN n /\ r = [k \in DOMAIN r |-> r[k]]
    BY <2>1
  <2> HIDE DEF r
  <2> QED
    BY <2>2 DEF Row
<1>2. there => pthere
  BY RowOf, OfDress, NodeDress
<1>3. ASSUME NEW y \in R, Of(y, "node", ns), Same(y) PROVE there
  <2>1. PICK m, x : m \in Namespaces /\ x \in lit[m] /\ y = Dress(m, x)
    BY InDressed DEF Paired
  <2>2. Row(x) /\ x.tab = "node" /\ m = ns
    BY <1>3, <2>1, RowOf, OfDress
  <2>3. y.id = x.id /\ y.atom = x.atom
    BY <2>1, <2>2, NodeDress
  <2> QED
    BY <1>3, <2>1, <2>2, <2>3
<1>4. there <=> pthere
  BY <1>2, <1>3
<1>5. n.up = None \/ \E x \in R : Of(x, "node", ns) /\ x.id = n.up
  BY RowOf, OfDress, NodeDress
<1>6. LiteSaveNode(lit[ns], n)
        = IF bad \/ there THEN Refused(lit[ns]) ELSE [rows |-> lit[ns] \cup {r}, out |-> "done"]
  BY DEF LiteSaveNode, Insert
<1>7. PgSaveNode(R, ns, n)
        = IF bad \/ pthere THEN Refused(R) ELSE [rows |-> R \cup {In(ns, r)}, out |-> "done"]
  BY <1>5 DEF PgSaveNode, Insert
<1> HIDE DEF there, pthere, r, bad
<1>8. /\ Paired([lit EXCEPT ![ns] = lit[ns] \cup {r}], R \cup {In(ns, r)}, t)
      /\ Alike(lit, R, ns, Refused(lit[ns]), Refused(R), t)
  BY <1>1, RowAlike, RefusedAlike
<1>9. CASE bad \/ there
  BY <1>4, <1>6, <1>7, <1>8, <1>9
<1>10. CASE ~(bad \/ there)
  BY <1>4, <1>6, <1>7, <1>8, <1>10 DEF Alike
<1> QED
  BY <1>9, <1>10

(* The same children, so a cascade collects the same nodes.                 *)
LEMMA DeleteNodeAlike ==
  ASSUME NEW lit, NEW R, NEW t \in Nat, Paired(lit, R, t), NEW ns \in Namespaces,
         NEW id, NEW cascade
  PROVE  Alike(lit, R, ns, LiteDeleteNode(lit[ns], id, cascade),
             PgDeleteNode(R, ns, id, cascade), t)
<1> DEFINE ids == {x.id : x \in {y \in lit[ns] : y.tab = "node"}}
           pids == {x.id : x \in {y \in R : Of(y, "node", ns)}}
           gone == IF cascade THEN Reached(ids, {id}, LAMBDA C : LiteKids(lit[ns], C)) ELSE {id}
           pgone == IF cascade THEN Reached(pids, {id}, LAMBDA C : PgKids(R, ns, C)) ELSE {id}
           hit == {x \in lit[ns] : x.tab = "node" /\ x.id \in gone}
           phit == {x \in R : Of(x, "node", ns) /\ x.id \in gone}
<1>1. ASSUME NEW x \in lit[ns], x.tab = "node"
      PROVE  LET d == Dress(ns, x) IN d \in R /\ Of(d, "node", ns) /\ d.id = x.id /\ d.up = x.up
  BY <1>1, RowOf, OfDress, NodeDress
<1>2. ASSUME NEW y \in R, Of(y, "node", ns)
      PROVE  \E x \in lit[ns] : x.tab = "node" /\ y.id = x.id /\ y.up = x.up
  <2>1. PICK m, x : m \in Namespaces /\ x \in lit[m] /\ y = Dress(m, x)
    BY InDressed DEF Paired
  <2>2. Row(x) /\ x.tab = "node" /\ m = ns
    BY <1>2, <2>1, RowOf, OfDress
  <2> QED
    BY <2>1, <2>2, NodeDress
<1>3. ids = pids
  BY <1>1, <1>2
<1>4. ASSUME NEW C PROVE LiteKids(lit[ns], C) = PgKids(R, ns, C)
  BY <1>1, <1>2 DEF LiteKids, PgKids
<1>5. gone = pgone
  <2> HIDE DEF ids, pids
  <2> QED
    BY <1>3, <1>4 DEF Reached
<1>6. LiteDeleteNode(lit[ns], id, cascade)
        = IF id \notin ids THEN [rows |-> lit[ns], out |-> "absent"]
          ELSE IF ~cascade /\ LiteKids(lit[ns], {id}) # {} THEN Refused(lit[ns])
          ELSE [rows |-> lit[ns] \ hit, out |-> "deleted"]
  <2>1. [Delete(lit[ns], LAMBDA x : x.tab = "node" /\ x.id \in gone) EXCEPT !.out = "deleted"]
          = [rows |-> lit[ns] \ hit, out |-> "deleted"]
    <3> HIDE DEF gone
    <3>1. {x \in lit[ns] : ~(x.tab = "node" /\ x.id \in gone)} = lit[ns] \ hit
      OBVIOUS
    <3> DEFINE left == {x \in lit[ns] : ~(x.tab = "node" /\ x.id \in gone)}
               many == Cardinality({x \in lit[ns] : x.tab = "node" /\ x.id \in gone})
    <3>2. Delete(lit[ns], LAMBDA x : x.tab = "node" /\ x.id \in gone)
              = [rows |-> left, out |-> many]
      BY DEF Delete
    <3>3. left = lit[ns] \ hit
      BY <3>1
    <3> HIDE DEF left, many, hit
    <3>4. [[rows |-> left, out |-> many] EXCEPT !.out = "deleted"]
              = [rows |-> lit[ns] \ hit, out |-> "deleted"]
      BY <3>3
    <3> QED
      BY <3>2, <3>4
  <2> QED
    BY <2>1 DEF LiteDeleteNode
<1>7. PgDeleteNode(R, ns, id, cascade)
        = IF id \notin pids THEN [rows |-> R, out |-> "absent"]
          ELSE IF ~cascade /\ PgKids(R, ns, {id}) # {} THEN Refused(R)
          ELSE [rows |-> R \ phit, out |-> "deleted"]
  <2>1. [Delete(R, LAMBDA x : Of(x, "node", ns) /\ x.id \in pgone) EXCEPT !.out = "deleted"]
          = [rows |-> R \ phit, out |-> "deleted"]
    <3> HIDE DEF gone, pgone
    <3>1. {x \in R : ~(Of(x, "node", ns) /\ x.id \in pgone)} = R \ phit
      BY <1>5
    <3> DEFINE left == {x \in R : ~(Of(x, "node", ns) /\ x.id \in pgone)}
               many == Cardinality({x \in R : Of(x, "node", ns) /\ x.id \in pgone})
    <3>2. Delete(R, LAMBDA x : Of(x, "node", ns) /\ x.id \in pgone)
              = [rows |-> left, out |-> many]
      BY DEF Delete
    <3>3. left = R \ phit
      BY <3>1
    <3> HIDE DEF left, many, phit
    <3>4. [[rows |-> left, out |-> many] EXCEPT !.out = "deleted"]
              = [rows |-> R \ phit, out |-> "deleted"]
      BY <3>3
    <3> QED
      BY <3>2, <3>4
  <2> QED
    BY <2>1 DEF PgDeleteNode
<1>8. \A x \in lit[ns] : x.tab = "node" => (x \in hit <=> Dress(ns, x) \in phit)
  <2> HIDE DEF gone
  <2> QED
    BY <1>1
<1>9. Selects(lit, R, ns, "node", hit, phit)
  <2> HIDE DEF gone
  <2> QED
    BY <1>8 DEF Selects
<1> HIDE DEF hit, phit, gone, pgone, ids, pids
<1>10. Alike(lit, R, ns, [rows |-> lit[ns] \ hit, out |-> "deleted"],
           [rows |-> R \ phit, out |-> "deleted"], t)
  BY <1>9, DeleteAlike
<1>11. /\ Alike(lit, R, ns, Refused(lit[ns]), Refused(R), t)
       /\ Alike(lit, R, ns, [rows |-> lit[ns], out |-> "absent"],
              [rows |-> R, out |-> "absent"], t)
  BY RefusedAlike DEF Alike, Refused
<1>12. LiteKids(lit[ns], {id}) = PgKids(R, ns, {id})
  BY <1>4
<1> QED
  BY <1>3, <1>6, <1>7, <1>10, <1>11, <1>12

LEMMA UpsertPageAlike ==
  ASSUME NEW lit, NEW R, NEW t \in Nat, Paired(lit, R, t), NEW ns \in Namespaces,
         NEW p, Row(p), p.tab = "page"
  PROVE  Alike(lit, R, ns, LiteUpsertPage(lit[ns], p), PgUpsertPage(R, ns, p), t)
<1> DEFINE hit == {x \in lit[ns] : x.tab = "page" /\ x.ent = p.ent}
           phit == {x \in R : Of(x, "page", ns) /\ x.ent = p.ent}
           f == [x \in hit |-> [p EXCEPT !.id = x.id, !.made = x.made, !.rev = x.rev + 1]]
           h == [x \in phit |-> [In(ns, p) EXCEPT !.id = x.id, !.made = x.made, !.rev
               = x.rev + 1]]
<1>1. \A x \in lit[ns] : x.tab = "page" => (x \in hit <=> Dress(ns, x) \in phit)
  BY RowOf, OfDress, PageDress
<1>2. Selects(lit, R, ns, "page", hit, phit)
  BY <1>1 DEF Selects
<1>4. ASSUME NEW x \in hit
      PROVE  Row(f[x]) /\ f[x].tab = x.tab /\ h[Dress(ns, x)] = Dress(ns, f[x])
  <2>1. x \in lit[ns] /\ x.tab = "page" /\ Row(x) /\ Dress(ns, x) \in phit
    BY <1>1, RowOf
  <2> DEFINE z == [p EXCEPT !.id = x.id, !.made = x.made, !.rev = x.rev + 1]
             e == Dress(ns, p)
             d == [e EXCEPT !.id = x.id, !.made = x.made, !.rev = x.rev + 1]
  <2>1a. Dress(ns, x).id = x.id /\ Dress(ns, x).made = x.made /\ Dress(ns, x).rev = x.rev
    BY <2>1, PageDress
  <2>1b. e = In(ns, p)
    BY DEF Dress
  <2>2. f[x] = z /\ h[Dress(ns, x)] = d
    <3>1. f[x] = z
      OBVIOUS
    <3>2. h[Dress(ns, x)] = [In(ns, p) EXCEPT !.id = Dress(ns, x).id, !.made
              = Dress(ns, x).made,
                                             !.rev = Dress(ns, x).rev + 1]
      BY <2>1
    <3> QED
      BY <3>1, <3>2, <2>1a, <2>1b
  <2>3. z = [k \in DOMAIN p |-> z[k]] /\ z.tab = p.tab
    BY <2>1, PageDress
  <2>4. Shaped(e, p, ns)
    BY <2>1, DressShape
  <2>5. d = [k \in DOMAIN p \cup {"ns"} |-> d[k]] /\ d.ns = ns
    <3> HIDE DEF e
    <3> QED
      BY <2>4 DEF Shaped
  <2>6. \A k \in DOMAIN p : d[k] = z[k]
    <3>1. p = [k \in DOMAIN p |-> p[k]]
      BY <2>1 DEF Row
    <3> HIDE DEF e
    <3> QED
      BY <2>1, <2>4, <3>1, PageDress DEF Shaped
  <2> HIDE DEF z, d, e
  <2>7. Row(z) /\ d = Dress(ns, z)
    BY <2>1, <2>3, <2>5, <2>6, Changed
  <2> QED
    BY <2>1, <2>2, <2>3, <2>7 DEF e
<1>6. Changes(ns, hit, f, h)
  BY <1>4 DEF Changes
<1>7. LiteUpsertPage(lit[ns], p)
        = [rows |-> IF hit # {} THEN {IF x \in hit THEN f[x] ELSE x : x \in lit[ns]}
                    ELSE lit[ns] \cup {p}, out |-> "done"]
  BY DEF LiteUpsertPage, Upsert, Update
<1>8. PgUpsertPage(R, ns, p)
        = [rows |-> IF phit # {} THEN {IF y \in phit THEN h[y] ELSE y : y \in R}
                    ELSE R \cup {In(ns, p)}, out |-> "done"]
  BY DEF PgUpsertPage, Upsert, Update
<1>9. "page" \notin {"meta", "atom", "dig"}
  OBVIOUS
<1> HIDE DEF hit, phit, f, h
<1>10. Alike(lit, R, ns,
             [rows |-> IF hit # {} THEN {IF x \in hit THEN f[x] ELSE x : x \in lit[ns]}
                       ELSE lit[ns] \cup {p}, out |-> "done"],
             [rows |-> IF phit # {} THEN {IF y \in phit THEN h[y] ELSE y : y \in R}
                       ELSE R \cup {In(ns, p)}, out |-> "done"], t)
  BY <1>2, <1>6, <1>9, UpsertAlike
<1> QED
  BY <1>7, <1>8, <1>10

LEMMA MarkDirtyAlike ==
  ASSUME NEW lit, NEW R, NEW t \in Nat, Paired(lit, R, t), NEW ns \in Namespaces,
         NEW stub, NEW when, Row(stub), stub.tab = "page"
  PROVE  Alike(lit, R, ns, LiteMarkDirty(lit[ns], stub, when), PgMarkDirty(R, ns, stub, when),
             t)
<1> DEFINE hit == {x \in lit[ns] : x.tab = "page" /\ x.ent = stub.ent}
           phit == {x \in R : Of(x, "page", ns) /\ x.ent = stub.ent}
           f == [x \in hit |-> [x EXCEPT !.dirty = TRUE, !.rev = @ + 1,
                   !.at = when]]
           h == [x \in phit |-> [x EXCEPT !.dirty = TRUE, !.rev = @ + 1,
                   !.at = when]]
<1>1. \A x \in lit[ns] : x.tab = "page" => (x \in hit <=> Dress(ns, x) \in phit)
  BY RowOf, OfDress, PageDress
<1>2. Selects(lit, R, ns, "page", hit, phit)
  BY <1>1 DEF Selects
<1>4. ASSUME NEW x \in hit
      PROVE  Row(f[x]) /\ f[x].tab = x.tab /\ h[Dress(ns, x)] = Dress(ns, f[x])
  <2>1. x \in lit[ns] /\ x.tab = "page" /\ Row(x) /\ Dress(ns, x) \in phit
    BY <1>1, RowOf
  <2> DEFINE z == [x EXCEPT !.dirty = TRUE, !.rev = @ + 1,
                   !.at = when]
             e == Dress(ns, x)
             d == [e EXCEPT !.dirty = TRUE, !.rev = @ + 1,
                   !.at = when]
  <2>2. f[x] = z /\ h[e] = d
    BY <2>1
  <2>3. z = [k \in DOMAIN x |-> z[k]] /\ z.tab = x.tab
    BY <2>1, PageDress
  <2>4. Shaped(e, x, ns)
    BY <2>1, DressShape
  <2>5. d = [k \in DOMAIN x \cup {"ns"} |-> d[k]] /\ d.ns = ns
    <3> HIDE DEF e
    <3> QED
      BY <2>4 DEF Shaped
  <2>6. \A k \in DOMAIN x : d[k] = z[k]
    <3>1. x = [k \in DOMAIN x |-> x[k]]
      BY <2>1 DEF Row
    <3> HIDE DEF e
    <3> QED
      BY <2>1, <2>4, <3>1, PageDress DEF Shaped
  <2> HIDE DEF z, d, e
  <2>7. Row(z) /\ d = Dress(ns, z)
    BY <2>1, <2>3, <2>5, <2>6, Changed
  <2> QED
    BY <2>1, <2>2, <2>3, <2>7 DEF e
<1>6. Changes(ns, hit, f, h)
  BY <1>4 DEF Changes
<1>7. LiteMarkDirty(lit[ns], stub, when)
        = [rows |-> IF hit # {} THEN {IF x \in hit THEN f[x] ELSE x : x \in lit[ns]}
                    ELSE lit[ns] \cup {stub}, out |-> "done"]
  BY DEF LiteMarkDirty, Upsert, Update
<1>8. PgMarkDirty(R, ns, stub, when)
        = [rows |-> IF phit # {} THEN {IF y \in phit THEN h[y] ELSE y : y \in R}
                    ELSE R \cup {In(ns, stub)}, out |-> "done"]
  BY DEF PgMarkDirty, Upsert, Update
<1>9. "page" \notin {"meta", "atom", "dig"}
  OBVIOUS
<1> HIDE DEF hit, phit, f, h
<1>10. Alike(lit, R, ns,
             [rows |-> IF hit # {} THEN {IF x \in hit THEN f[x] ELSE x : x \in lit[ns]}
                       ELSE lit[ns] \cup {stub}, out |-> "done"],
             [rows |-> IF phit # {} THEN {IF y \in phit THEN h[y] ELSE y : y \in R}
                       ELSE R \cup {In(ns, stub)}, out |-> "done"], t)
  BY <1>2, <1>6, <1>9, UpsertAlike
<1> QED
  BY <1>7, <1>8, <1>10

LEMMA UpsertActiveAlike ==
  ASSUME NEW lit, NEW R, NEW t \in Nat, Paired(lit, R, t), NEW ns \in Namespaces,
         NEW r, Row(r), r.tab = "active"
  PROVE  Alike(lit, R, ns, LiteUpsertActive(lit[ns], r), PgUpsertActive(R, ns, r), t)
<1> DEFINE hit == {x \in lit[ns] : x.tab = "active" /\ x.thread = r.thread /\ x.ent = r.ent}
           phit == {x \in R : Of(x, "active", ns) /\ x.thread = r.thread /\ x.ent = r.ent}
           f == [x \in hit |-> [x EXCEPT !.at = r.at, !.source = r.source]]
           h == [x \in phit |-> [x EXCEPT !.at = r.at, !.source = r.source]]
<1>1. \A x \in lit[ns] : x.tab = "active" => (x \in hit <=> Dress(ns, x) \in phit)
  BY RowOf, OfDress, ActiveDress
<1>2. Selects(lit, R, ns, "active", hit, phit)
  BY <1>1 DEF Selects
<1>4. ASSUME NEW x \in hit
      PROVE  Row(f[x]) /\ f[x].tab = x.tab /\ h[Dress(ns, x)] = Dress(ns, f[x])
  <2>1. x \in lit[ns] /\ x.tab = "active" /\ Row(x) /\ Dress(ns, x) \in phit
    BY <1>1, RowOf
  <2> DEFINE z == [x EXCEPT !.at = r.at, !.source = r.source]
             e == Dress(ns, x)
             d == [e EXCEPT !.at = r.at, !.source = r.source]
  <2>2. f[x] = z /\ h[e] = d
    BY <2>1
  <2>3. z = [k \in DOMAIN x |-> z[k]] /\ z.tab = x.tab
    BY <2>1, ActiveDress
  <2>4. Shaped(e, x, ns)
    BY <2>1, DressShape
  <2>5. d = [k \in DOMAIN x \cup {"ns"} |-> d[k]] /\ d.ns = ns
    <3> HIDE DEF e
    <3> QED
      BY <2>4 DEF Shaped
  <2>6. \A k \in DOMAIN x : d[k] = z[k]
    <3>1. x = [k \in DOMAIN x |-> x[k]]
      BY <2>1 DEF Row
    <3> HIDE DEF e
    <3> QED
      BY <2>1, <2>4, <3>1, ActiveDress DEF Shaped
  <2> HIDE DEF z, d, e
  <2>7. Row(z) /\ d = Dress(ns, z)
    BY <2>1, <2>3, <2>5, <2>6, Changed
  <2> QED
    BY <2>1, <2>2, <2>3, <2>7 DEF e
<1>6. Changes(ns, hit, f, h)
  BY <1>4 DEF Changes
<1>7. LiteUpsertActive(lit[ns], r)
        = [rows |-> IF hit # {} THEN {IF x \in hit THEN f[x] ELSE x : x \in lit[ns]}
                    ELSE lit[ns] \cup {r}, out |-> "done"]
  BY DEF LiteUpsertActive, Upsert, Update
<1>8. PgUpsertActive(R, ns, r)
        = [rows |-> IF phit # {} THEN {IF y \in phit THEN h[y] ELSE y : y \in R}
                    ELSE R \cup {In(ns, r)}, out |-> "done"]
  BY DEF PgUpsertActive, Upsert, Update
<1>9. "active" \notin {"meta", "atom", "dig"}
  OBVIOUS
<1> HIDE DEF hit, phit, f, h
<1>10. Alike(lit, R, ns,
             [rows |-> IF hit # {} THEN {IF x \in hit THEN f[x] ELSE x : x \in lit[ns]}
                       ELSE lit[ns] \cup {r}, out |-> "done"],
             [rows |-> IF phit # {} THEN {IF y \in phit THEN h[y] ELSE y : y \in R}
                       ELSE R \cup {In(ns, r)}, out |-> "done"], t)
  BY <1>2, <1>6, <1>9, UpsertAlike
<1> QED
  BY <1>7, <1>8, <1>10

(* SQLite looks the period up and then goes by its id, Postgres by the      *)
(* period: ids tell digests apart, so both hit the same row.                *)
LEMMA UpsertDigestAlike ==
  ASSUME NEW lit, NEW R, NEW t \in Nat, Paired(lit, R, t), NEW ns \in Namespaces,
         NEW g, Row(g), g.tab = "dig"
  PROVE  Alike(lit, R, ns, LiteUpsertDigest(lit[ns], g), PgUpsertDigest(R, ns, g), t)
<1> DEFINE hit == {x \in lit[ns] : x.tab = "dig" /\ x.kind = g.kind /\ x.key = g.key}
           phit == {x \in R : Of(x, "dig", ns) /\ x.kind = g.kind /\ x.key = g.key}
           f == [x \in hit |-> [x EXCEPT !.at = g.at, !.text = g.text]]
           h == [x \in phit |-> [x EXCEPT !.at = g.at, !.text = g.text]]
<1>1. \A x \in lit[ns] : x.tab = "dig" => (x \in hit <=> Dress(ns, x) \in phit)
  BY RowOf, OfDress, DigestDress
<1>2. Selects(lit, R, ns, "dig", hit, phit)
  BY <1>1 DEF Selects
<1>4. ASSUME NEW x \in hit
      PROVE  Row(f[x]) /\ f[x].tab = x.tab /\ h[Dress(ns, x)] = Dress(ns, f[x])
  <2>1. x \in lit[ns] /\ x.tab = "dig" /\ Row(x) /\ Dress(ns, x) \in phit
    BY <1>1, RowOf
  <2> DEFINE z == [x EXCEPT !.at = g.at, !.text = g.text]
             e == Dress(ns, x)
             d == [e EXCEPT !.at = g.at, !.text = g.text]
  <2>2. f[x] = z /\ h[e] = d
    BY <2>1
  <2>3. z = [k \in DOMAIN x |-> z[k]] /\ z.tab = x.tab
    BY <2>1, DigestDress
  <2>4. Shaped(e, x, ns)
    BY <2>1, DressShape
  <2>5. d = [k \in DOMAIN x \cup {"ns"} |-> d[k]] /\ d.ns = ns
    <3> HIDE DEF e
    <3> QED
      BY <2>4 DEF Shaped
  <2>6. \A k \in DOMAIN x : d[k] = z[k]
    <3>1. x = [k \in DOMAIN x |-> x[k]]
      BY <2>1 DEF Row
    <3> HIDE DEF e
    <3> QED
      BY <2>1, <2>4, <3>1, DigestDress DEF Shaped
  <2> HIDE DEF z, d, e
  <2>7. Row(z) /\ d = Dress(ns, z)
    BY <2>1, <2>3, <2>5, <2>6, Changed
  <2> QED
    BY <2>1, <2>2, <2>3, <2>7 DEF e
<1>5. ASSUME NEW x \in hit PROVE f[x].id = x.id
  <2>1. DOMAIN x = {"tab", "id", "kind", "key", "at", "text"}
    BY RowOf, DigestDress
  <2> QED
    BY <2>1
<1>6. Changes(ns, hit, f, h)
  BY <1>4, <1>5 DEF Changes
<1>7. \A x \in lit[ns] : (x.tab = "dig" /\ x.id \in {y.id : y \in hit}) <=> x \in hit
  BY DEF Paired, Sound, Keyed
<1>8. phit = DressedRows(ns, hit) /\ (hit = {} <=> phit = {})
  <2> HIDE DEF hit, phit
  <2>1. phit = DressedRows(ns, hit)
    BY <1>2, Hits
  <2> QED
    BY <2>1 DEF DressedRows
<1>9. CASE hit # {}
  <2>1. LiteUpsertDigest(lit[ns], g)
          = [rows |-> {IF x \in hit THEN f[x] ELSE x : x \in lit[ns]}, out |-> "done"]
    <3> DEFINE ids == {y.id : y \in hit}
               new == {IF x.tab = "dig" /\ x.id \in ids THEN [x EXCEPT !.at = g.at, !.text
                   = g.text]
                       ELSE x : x \in lit[ns]}
               many == Cardinality({x \in lit[ns] : x.tab = "dig" /\ x.id \in ids})
    <3>1. LiteUpsertDigest(lit[ns], g) = [[rows |-> new, out |-> many] EXCEPT !.out = "done"]
      BY <1>9 DEF LiteUpsertDigest, Update
    <3>2. new = {IF x \in hit THEN f[x] ELSE x : x \in lit[ns]}
      <4>1. \A x \in lit[ns] : (x.tab = "dig" /\ x.id \in ids) <=> x \in hit
        BY <1>7
      <4>2. \A x \in hit : f[x] = [x EXCEPT !.at = g.at, !.text = g.text]
        OBVIOUS
      <4> HIDE DEF ids, hit, f
      <4> QED
        BY <4>1, <4>2
    <3> HIDE DEF new, many
    <3>3. [[rows |-> new, out |-> many] EXCEPT !.out = "done"] = [rows |-> new, out |-> "done"]
      OBVIOUS
    <3> QED
      BY <3>1, <3>2, <3>3
  <2>2. PgUpsertDigest(R, ns, g)
          = [rows |-> {IF y \in phit THEN h[y] ELSE y : y \in R}, out |-> "done"]
    BY <1>8, <1>9 DEF PgUpsertDigest, Upsert, Update
  <2> HIDE DEF hit, phit, f, h
  <2>3. hit \in SUBSET lit[ns]
    BY <1>2 DEF Selects
  <2>4. Paired([lit EXCEPT ![ns] = {IF x \in hit THEN f[x] ELSE x : x \in lit[ns]}],
               {IF y \in phit THEN h[y] ELSE y : y \in R}, t)
    BY <1>6, <1>8, <2>3, UpdatePaired
  <2> QED
    BY <2>1, <2>2, <2>4 DEF Alike
<1>10. CASE hit = {}
  <2>1. LiteUpsertDigest(lit[ns], g)
          = IF \E x \in lit[ns] : x.tab = "dig" /\ x.id = g.id THEN Refused(lit[ns])
            ELSE [rows |-> lit[ns] \cup {g}, out |-> "done"]
    BY <1>10 DEF LiteUpsertDigest, Insert
  <2>2. PgUpsertDigest(R, ns, g)
          = IF \E y \in R : Of(y, "dig", ns) /\ y.id = g.id THEN Refused(R)
            ELSE [rows |-> R \cup {In(ns, g)}, out |-> "done"]
    <3>1. \A y \in R : ~(Of(y, "dig", ns) /\ y.kind = g.kind /\ y.key = g.key)
      BY <1>8, <1>10
    <3>2. CASE \E y \in R : Of(y, "dig", ns) /\ y.id = g.id
      BY <3>1, <3>2 DEF PgUpsertDigest
    <3>3. CASE ~\E y \in R : Of(y, "dig", ns) /\ y.id = g.id
      BY <3>1, <3>3 DEF PgUpsertDigest, Upsert
    <3> QED
      BY <3>2, <3>3
  <2> QED
    BY <2>1, <2>2, InsertAlike
<1> QED
  BY <1>9, <1>10

(* The prefix of the key keeps the namespaces apart.                        *)
LEMMA SetMetaAlike ==
  ASSUME NEW lit, NEW R, NEW t \in Nat, Paired(lit, R, t), NEW ns \in Namespaces,
         NEW key, NEW value, table = "meta"
  PROVE  Alike(lit, R, ns, LiteSetMeta(lit[ns], key, value), PgSetMeta(R, ns, key, value), t)
<1> DEFINE hit == {x \in lit[ns] : x.tab = "meta" /\ x.key = key}
           phit == {y \in R : y.tab = "meta" /\ y.key = PgMetaKey(ns, key)}
           r == [tab |-> "meta", key |-> key, value |-> value]
           q == [tab |-> "meta", key |-> PgMetaKey(ns, key), value |-> value]
           f == [x \in hit |-> [x EXCEPT !.value = value]]
           h == [y \in phit |-> [y EXCEPT !.value = value]]
<1>1. Row(r) /\ Dress(ns, r) = q
  BY DEF Row, Cols, Dress
<1>2. hit \in SUBSET lit[ns]
  OBVIOUS
<1>3. phit = DressedRows(ns, hit)
  <2>1. ASSUME NEW x \in hit PROVE Dress(ns, x) \in phit
    BY RowOf, MetaKey
  <2>2. ASSUME NEW y \in phit PROVE \E x \in hit : y = Dress(ns, x)
    <3>1. PICK n, x : n \in Namespaces /\ x \in lit[n] /\ y = Dress(n, x)
      BY InDressed DEF Paired
    <3>2. x.tab = "meta" /\ n = ns /\ x.key = key
      BY <3>1, MetaKey
    <3> QED
      BY <3>1, <3>2
  <2> HIDE DEF hit, phit
  <2> QED
    BY <2>1, <2>2 DEF DressedRows
<1>4. ASSUME NEW x \in hit
      PROVE  Row(f[x]) /\ f[x].tab = x.tab /\ h[Dress(ns, x)] = Dress(ns, f[x])
  <2>1. Row(x) /\ x.tab = "meta" /\ Dress(ns, x) \in phit /\ DOMAIN x = {"tab", "key", "value"}
    BY RowOf, MetaKey, MetaIs
  <2> DEFINE z == [x EXCEPT !.value = value]
             d == [x EXCEPT !.key = <<ns, x.key>>]
  <2>2. f[x] = z /\ h[Dress(ns, x)] = [Dress(ns, x) EXCEPT !.value = value]
    BY <2>1
  <2>3. Row(z) /\ z.tab = "meta" /\ z.key = x.key
    BY <2>1 DEF Row
  <2>4. Dress(ns, x) = d /\ Dress(ns, z) = [z EXCEPT !.key = <<ns, x.key>>]
    <3> HIDE DEF z
    <3> QED
      BY <2>1, <2>3, MetaIs
  <2>5. [d EXCEPT !.value = value] = [z EXCEPT !.key = <<ns, x.key>>]
    BY <2>1
  <2> QED
    BY <2>1, <2>2, <2>3, <2>4, <2>5
<1>5. Changes(ns, hit, f, h)
  BY <1>4 DEF Changes
<1>6. LiteSetMeta(lit[ns], key, value)
        = [rows |-> IF hit # {} THEN {IF x \in hit THEN f[x] ELSE x : x \in lit[ns]}
                    ELSE lit[ns] \cup {r}, out |-> "done"]
  BY DEF LiteSetMeta, Upsert, Update
<1>7. PgSetMeta(R, ns, key, value)
        = [rows |-> IF phit # {} THEN {IF y \in phit THEN h[y] ELSE y : y \in R}
                    ELSE R \cup {q}, out |-> "done"]
  BY DEF PgSetMeta, Upsert, Update
<1> HIDE DEF hit, phit, f, h
<1>8. Paired([lit EXCEPT ![ns] = {IF x \in hit THEN f[x] ELSE x : x \in lit[ns]}],
             {IF y \in phit THEN h[y] ELSE y : y \in R}, t)
  BY <1>2, <1>3, <1>5, UpdatePaired
<1>9. Paired([lit EXCEPT ![ns] = lit[ns] \cup {r}], R \cup {q}, t)
  <2> HIDE DEF q
  <2>1. r.tab = "meta"
    OBVIOUS
  <2> HIDE DEF r
  <2> QED
    BY <1>1, <2>1, InsertPaired
<1> HIDE DEF q, r
<1>10. hit # {} <=> phit # {}
  BY <1>3 DEF DressedRows
<1>11. CASE hit # {}
  BY <1>6, <1>7, <1>8, <1>10, <1>11 DEF Alike
<1>12. CASE hit = {}
  BY <1>6, <1>7, <1>9, <1>10, <1>12 DEF Alike
<1> QED
  BY <1>11, <1>12

LEMMA Least ==
  ASSUME NEW S \in SUBSET Nat, S # {} PROVE \E n \in S : \A m \in S : ~(m < n)
<1> DEFINE Lower == {ss \in Nat \X Nat : ss[1] < ss[2]}
<1>1. IsWellFoundedOn(Lower, Nat)
  BY NatLessThanWellFounded DEF OpToRel
<1> HIDE DEF Lower
<1>2. \E n \in S : \A m \in S : ~ (<<m, n>> \in Lower)
  BY <1>1, WFMin
<1>3. \A m, n \in Nat : <<m, n>> \notin Lower => ~(m < n)
  BY DEF Lower
<1> QED
  BY <1>2, <1>3

(* The earliest of rows with times of their own is one row.                 *)
LEMMA EarliestOne ==
  ASSUME NEW A, IsFiniteSet(A), A # {}, \A x \in A : x.at \in Nat,
         \A x, y \in A : x.at = y.at => x = y
  PROVE  \E k \in A : Earliest(A, 1) = {k}
<1> DEFINE Times == {x.at : x \in A}
<1>1. PICK k \in A : \A x \in A : ~(x.at < k.at)
  <2>1. Times \subseteq Nat /\ Times # {}
    OBVIOUS
  <2>2. PICK m \in Times : \A q \in Times : ~(q < m)
    <3> HIDE DEF Times
    <3> QED
      BY <2>1, Least
  <2> QED
    BY <2>2
<1>2. {y \in A : y.at < k.at} = {}
  BY <1>1
<1>3. k \in Earliest(A, 1)
  BY <1>2, FS_EmptySet DEF Earliest
<1>4. ASSUME NEW x \in Earliest(A, 1) PROVE x = k
  <2> DEFINE B == {y \in A : y.at < x.at}
  <2>1. x \in A /\ Cardinality(B) < 1
    BY DEF Earliest
  <2>2. IsFiniteSet(B)
    BY FS_Subset
  <2>3. B = {}
    <3> HIDE DEF B
    <3> QED
      BY <2>1, <2>2, FS_EmptySet, FS_CardinalityType
  <2>4. ~(k.at < x.at) /\ ~(x.at < k.at)
    BY <1>1, <2>1, <2>3
  <2>5. x.at = k.at
    BY <2>1, <2>4
  <2> QED
    BY <2>1, <2>5
<1> QED
  BY <1>3, <1>4

(* The rows that a migration compares, and the one that keeps the text.     *)
SameText(L, G, s) ==
    IF {y \in G : y.sig = s} # {} THEN {y \in G : y.sig = s} ELSE {y \in L : y.sig = s}

Keeper(L, G, s) == CHOOSE y \in Earliest(SameText(L, G, s), 1) : TRUE

LEMMA KeeperDressed ==
  ASSUME NEW lit, NEW R, NEW t, Paired(lit, R, t), NEW ns \in Namespaces,
         NEW L, NEW Lp, Selects(lit, R, ns, "atom", L, Lp),
         NEW G, NEW Gp, Selects(lit, R, ns, "atom", G, Gp), NEW x \in L
  PROVE  /\ Keeper(L, G, x.sig) \in L \cup G
         /\ Keeper(Lp, Gp, x.sig) = Dress(ns, Keeper(L, G, x.sig))
<1> DEFINE s == x.sig
           Gs == {y \in G : y.sig = s}
           Gps == {y \in Gp : y.sig = s}
           Ls == {y \in L : y.sig = s}
           Lps == {y \in Lp : y.sig = s}
           A == SameText(L, G, s)
           B == SameText(Lp, Gp, s)
<1>1. \A y \in lit[ns] : y.tab = "atom" => Dress(ns, y).sig = y.sig
  BY RowOf, AtomDress
<1>2. Selects(lit, R, ns, "atom", Gs, Gps)
  <2> HIDE DEF s
  <2> QED
    BY <1>1 DEF Selects
<1>3. Selects(lit, R, ns, "atom", Ls, Lps)
  <2> HIDE DEF s
  <2> QED
    BY <1>1 DEF Selects
<1>4. Gs = {} <=> Gps = {}
  <2> HIDE DEF Gs, Gps
  <2>1. Gps = DressedRows(ns, Gs)
    BY <1>2, Hits
  <2> QED
    BY <2>1 DEF DressedRows
<1>5. A = (IF Gs # {} THEN Gs ELSE Ls) /\ B = (IF Gps # {} THEN Gps ELSE Lps)
  BY DEF SameText
<1>6. A # {} /\ A \subseteq L \cup G
  <2>1. x \in Ls
    OBVIOUS
  <2> HIDE DEF A, B
  <2> QED
    BY <1>5, <2>1
<1>7. Selects(lit, R, ns, "atom", A, B)
  <2> HIDE DEF A, B, Gs, Gps, Ls, Lps
  <2>1. CASE Gs = {}
    BY <1>3, <1>4, <1>5, <2>1
  <2>2. CASE Gs # {}
    BY <1>2, <1>4, <1>5, <2>2
  <2> QED
    BY <2>1, <2>2
<1> HIDE DEF A, B, Gs, Gps, Ls, Lps
<1>8. IsFiniteSet(A)
  BY <1>7, Hits
<1>9. \A y \in A : y \in lit[ns] /\ y.tab = "atom"
  BY <1>7 DEF Selects
<1>10. (\A y \in A : y.at \in Nat) /\ \A y, z \in A : y.at = z.at => y = z
  BY <1>9 DEF Paired, Sound, Keyed
<1>11. PICK k \in A : Earliest(A, 1) = {k}
  BY <1>6, <1>8, <1>10, EarliestOne
<1>12. Earliest(B, 1) = DressedRows(ns, Earliest(A, 1))
  BY <1>7, ListsDressed, Timed
<1>13. Earliest(B, 1) = {Dress(ns, k)}
  BY <1>11, <1>12 DEF DressedRows
<1>14. Keeper(L, G, s) = k /\ Keeper(Lp, Gp, s) = Dress(ns, k)
  BY <1>11, <1>13 DEF Keeper, A, B
<1> QED
  BY <1>6, <1>11, <1>14

(* Both keep the same row of each text, and move or retire the others.      *)
LEMMA MigrateAlike ==
  ASSUME NEW lit, NEW R, NEW t, Paired(lit, R, t), NEW ns \in Namespaces,
         NEW src, NEW tgt, NEW when
  PROVE  Alike(lit, R, ns, LiteMigrate(lit[ns], src, tgt, when),
             PgMigrate(R, ns, src, tgt, when), t)
<1> DEFINE L == {x \in lit[ns] : x.tab = "atom" /\ x.ent = src /\ x.dead = 0}
           G == {x \in lit[ns] : x.tab = "atom" /\ x.ent = tgt /\ x.dead = 0}
           Lp == {x \in R : Of(x, "atom", ns) /\ x.ent = src /\ x.dead = 0}
           Gp == {x \in R : Of(x, "atom", ns) /\ x.ent = tgt /\ x.dead = 0}
           moves == {x \in L : Keeper(L, G, x.sig) = x}
           pmoves == {x \in Lp : Keeper(Lp, Gp, x.sig) = x}
           f == [x \in L |-> IF x \in moves THEN [x EXCEPT !.ent = tgt]
                             ELSE [x EXCEPT !.by = Keeper(L, G, x.sig).id, !.dead = when]]
           h == [x \in Lp |-> IF x \in pmoves THEN [x EXCEPT !.ent = tgt]
                              ELSE [x EXCEPT !.by = Keeper(Lp, Gp, x.sig).id, !.dead = when]]
<1>1. \A x \in lit[ns] : x.tab = "atom" =>
          (x \in L <=> Dress(ns, x) \in Lp) /\ (x \in G <=> Dress(ns, x) \in Gp)
  BY RowOf, OfDress, AtomDress
<1>2. Selects(lit, R, ns, "atom", L, Lp)
  BY <1>1 DEF Selects
<1>3. Selects(lit, R, ns, "atom", G, Gp)
  BY <1>1 DEF Selects
<1>4. LiteMigrate(lit[ns], src, tgt, when)
        = [rows |-> {IF x \in L THEN f[x] ELSE x : x \in lit[ns]}, out |-> Cardinality(moves)]
  BY DEF LiteMigrate, Keeper, SameText
<1>5. PgMigrate(R, ns, src, tgt, when)
        = [rows |-> {IF y \in Lp THEN h[y] ELSE y : y \in R}, out |-> Cardinality(pmoves)]
  BY DEF PgMigrate, Keeper, SameText
<1>6. \A x \in L : x \in lit[ns] /\ x.tab = "atom" /\ Dress(ns, x) \in Lp
  BY <1>1
<1>7. \A x \in L \cup G : x \in lit[ns] /\ x.tab = "atom"
  OBVIOUS
<1> HIDE DEF L, Lp, G, Gp
<1>8. ASSUME NEW x \in L
      PROVE  /\ Keeper(L, G, x.sig) \in L \cup G
             /\ Keeper(Lp, Gp, Dress(ns, x).sig) = Dress(ns, Keeper(L, G, x.sig))
  <2>1. Dress(ns, x).sig = x.sig
    BY <1>6, RowOf, AtomDress
  <2> QED
    BY <1>2, <1>3, <2>1, KeeperDressed
<1>9. ASSUME NEW x \in L PROVE x \in moves <=> Dress(ns, x) \in pmoves
  <2>1. Row(x) /\ Row(Keeper(L, G, x.sig)) /\ Dress(ns, x) \in Lp
    BY <1>6, <1>7, <1>8, RowOf
  <2>2. x \in moves <=> Keeper(L, G, x.sig) = x
    OBVIOUS
  <2>3. Dress(ns, x) \in pmoves <=> Dress(ns, Keeper(L, G, x.sig)) = Dress(ns, x)
    BY <1>8, <2>1
  <2> QED
    BY <2>1, <2>2, <2>3, DressApart
<1>10. Selects(lit, R, ns, "atom", moves, pmoves)
  <2>1. moves \subseteq L /\ pmoves \subseteq Lp
    OBVIOUS
  <2> HIDE DEF moves, pmoves
  <2> QED
    BY <1>2, <1>9, <2>1 DEF Selects
<1>11. ASSUME NEW x \in L
       PROVE  /\ Row(f[x]) /\ f[x].tab = x.tab /\ f[x].id = x.id /\ f[x].at = x.at
              /\ h[Dress(ns, x)] = Dress(ns, f[x])
  <2> DEFINE e == Dress(ns, x)
             k == Keeper(L, G, x.sig)
             z1 == [x EXCEPT !.ent = tgt]
             z2 == [x EXCEPT !.by = k.id, !.dead = when]
             d1 == [e EXCEPT !.ent = tgt]
             d2 == [e EXCEPT !.by = k.id, !.dead = when]
  <2>1. Row(x) /\ x.tab = "atom" /\ e \in Lp
    BY <1>6, RowOf
  <2>2. x = [c \in DOMAIN x |-> x[c]] /\ DOMAIN x
            = {"tab", "id", "ent", "sig", "at", "dead", "by"}
    BY <2>1, AtomDress DEF Row
  <2>3. Shaped(e, x, ns)
    BY <2>1, DressShape
  <2>4. Keeper(Lp, Gp, e.sig).id = k.id
    <3>1. k \in lit[ns] /\ k.tab = "atom" /\ Keeper(Lp, Gp, e.sig) = Dress(ns, k)
      BY <1>7, <1>8
    <3> HIDE DEF k, e
    <3> QED
      BY <3>1, RowOf, AtomDress
  <2>5. f[x] = IF x \in moves THEN z1 ELSE z2
    OBVIOUS
  <2>6. h[e] = IF x \in moves THEN d1 ELSE d2
    <3> HIDE DEF e, k, moves, pmoves
    <3>1. h[e] = IF e \in pmoves THEN [e EXCEPT !.ent = tgt]
                 ELSE [e EXCEPT !.by = Keeper(Lp, Gp, e.sig).id, !.dead = when]
      BY <2>1
    <3> QED
      BY <3>1, <1>9, <2>4 DEF e
  <2> HIDE DEF f, h, moves, pmoves, e, k
  <2>7. Row(z1) /\ z1.tab = x.tab /\ z1.id = x.id /\ z1.at = x.at /\ d1 = Dress(ns, z1)
    <3>1. z1 = [c \in DOMAIN x |-> z1[c]] /\ z1.tab = x.tab /\ z1.id = x.id /\ z1.at = x.at
      BY <2>2
    <3>2. d1 = [c \in DOMAIN x \cup {"ns"} |-> d1[c]] /\ d1.ns = ns
      BY <2>2, <2>3 DEF Shaped
    <3>3. \A c \in DOMAIN x : d1[c] = z1[c]
      BY <2>2, <2>3 DEF Shaped
    <3> HIDE DEF z1, d1
    <3> QED
      BY <2>1, <3>1, <3>2, <3>3, Changed
  <2>8. Row(z2) /\ z2.tab = x.tab /\ z2.id = x.id /\ z2.at = x.at /\ d2 = Dress(ns, z2)
    <3>1. z2 = [c \in DOMAIN x |-> z2[c]] /\ z2.tab = x.tab /\ z2.id = x.id /\ z2.at = x.at
      BY <2>2
    <3>2. d2 = [c \in DOMAIN x \cup {"ns"} |-> d2[c]] /\ d2.ns = ns
      BY <2>2, <2>3 DEF Shaped
    <3>3. \A c \in DOMAIN x : d2[c] = z2[c]
      BY <2>2, <2>3 DEF Shaped
    <3> HIDE DEF z2, d2
    <3> QED
      BY <2>1, <3>1, <3>2, <3>3, Changed
  <2> HIDE DEF z1, z2, d1, d2
  <2> QED
    BY <2>5, <2>6, <2>7, <2>8 DEF e
<1>12. Changes(ns, L, f, h)
  BY <1>11 DEF Changes
<1>13. Lp = DressedRows(ns, L) /\ L \in SUBSET lit[ns]
  BY <1>2, Hits
<1>14. Cardinality(moves) = Cardinality(pmoves)
  <2> HIDE DEF moves, pmoves
  <2> QED
    BY <1>10, Hits
<1> HIDE DEF moves, pmoves, f, h
<1>15. Paired([lit EXCEPT ![ns] = {IF x \in L THEN f[x] ELSE x : x \in lit[ns]}],
              {IF y \in Lp THEN h[y] ELSE y : y \in R}, t)
  BY <1>12, <1>13, UpdatePaired
<1> QED
  BY <1>4, <1>5, <1>14, <1>15 DEF Alike

(* A removed agent leaves nothing, and takes nothing of the others.         *)
LEMMA PurgeAlike ==
  ASSUME NEW lit, NEW R, NEW t, Paired(lit, R, t), NEW ns \in Namespaces, table # "meta"
  PROVE  Alike(lit, R, ns, [rows |-> {}, out |-> 0], [rows |-> PgPurge(R, ns), out |-> 0], t)
<1>1. Paired([lit EXCEPT ![ns] = lit[ns] \ lit[ns]], R \ DressedRows(ns, lit[ns]), t)
  BY DeletePaired
<1>2. PgPurge(R, ns) = R \ DressedRows(ns, lit[ns])
  <2> SUFFICES ASSUME NEW y \in R PROVE y \in PgPurge(R, ns) <=> y \notin DressedRows(ns,
          lit[ns])
    BY DEF PgPurge
  <2>1. PICK n, x : n \in Namespaces /\ x \in lit[n] /\ y = Dress(n, x)
    BY InDressed DEF Paired
  <2>2. Row(x) /\ x.tab # "meta"
    BY <2>1 DEF Paired, Sound
  <2>3. y.tab # "meta" /\ y.ns = n
    BY <2>1, <2>2, DressTab, DressNs
  <2>4. y \in PgPurge(R, ns) <=> n # ns
    BY <2>3 DEF PgPurge
  <2>5. n # ns => y \notin DressedRows(ns, lit[ns])
    BY <2>1, PairedApart
  <2>6. n = ns => y \in DressedRows(ns, lit[ns])
    BY <2>1 DEF DressedRows
  <2> QED
    BY <2>4, <2>5, <2>6
<1>3. lit[ns] \ lit[ns] = {}
  OBVIOUS
<1> QED
  BY <1>1, <1>2, <1>3 DEF Alike

-----------------------------------------------------------------------------
(* The rows of the shared tables are those of every namespace, dressed, and  *)
(* the last call said the same on both.                                      *)
ParInv == calls \in Nat /\ Paired(lite, pg, calls) /\ last[1] = last[2]

LEMMA Begins == Init => ParInv
<1> SUFFICES ASSUME Init PROVE ParInv
  OBVIOUS
<1>1. DOMAIN lite = Namespaces /\ \A ns \in Namespaces : lite[ns] = {}
  BY DEF Init
<1>2. Dressed(lite) = {}
  BY <1>1, InDressed
<1>3. \A ns \in Namespaces : Sound(lite[ns], 0)
  BY <1>1, FS_EmptySet DEF Sound, Keyed
<1>4. pg = {} /\ calls = 0 /\ last = <<0, 0>>
  BY DEF Init
<1> QED
  BY <1>1, <1>2, <1>3, <1>4 DEF ParInv, Paired

(* The call that is made now: older rows are older.                          *)
LEMMA Later ==
  ASSUME ParInv
  PROVE  /\ Now \in Nat /\ Paired(lite, pg, Now)
         /\ \A ns \in Namespaces : \A y \in lite[ns] : y.tab = "atom" => y.at < Now
<1>1. calls \in Nat /\ Now = calls + 1
  BY DEF ParInv, Now
<1>2. ASSUME NEW ns \in Namespaces, NEW y \in lite[ns], y.tab = "atom"
      PROVE  y.at \in Nat /\ y.at < Now /\ y.at <= Now
  <2>1. y.at \in Nat /\ y.at <= calls
    BY <1>2 DEF ParInv, Paired, Sound, Keyed
  <2> QED
    BY <1>1, <2>1
<1>3. \A ns \in Namespaces : Sound(lite[ns], Now)
  <2> HIDE DEF Now
  <2> QED
    BY <1>2 DEF ParInv, Paired, Sound, Keyed
<1> QED
  BY <1>1, <1>2, <1>3 DEF ParInv, Paired

LEMMA CallPaired ==
  ASSUME ParInv, NEW ns \in Namespaces, NEW l, NEW p, Call(ns, l, p),
      Alike(lite, pg, ns, l, p, Now)
  PROVE  ParInv'
<1>1. /\ calls' = Now /\ lite' = [lite EXCEPT ![ns] = l.rows] /\ pg' = p.rows
      /\ last' = <<l.out, p.out>> /\ table' = table
  BY DEF Call
<1>2. Now \in Nat
  BY Later
<1>3. Paired(lite', pg', calls')
  BY <1>1 DEF Alike
<1> QED
  BY <1>1, <1>2, <1>3 DEF ParInv, Alike, Paired, Sound

LEMMA NodeSteps ==
  ASSUME ParInv, NEW ns \in Namespaces, NodeCalls(ns)
  PROVE  ParInv'
<1>0. Now \in Nat /\ Paired(lite, pg, Now)
  BY Later
<1>1. ASSUME NEW id, NEW level, NEW t, NEW a, NEW up,
             up \in {None} \cup {x.id : x \in {y \in lite[ns] : y.tab = "node"}},
             Call(ns, LiteSaveNode(lite[ns], NodeRow(id, up, level, a, t)),
                 PgSaveNode(pg, ns, NodeRow(id, up, level, a, t)))
      PROVE  ParInv'
  <2>1. Row(NodeRow(id, up, level, a, t)) /\ NodeRow(id, up, level, a, t).tab = "node"
            /\ NodeRow(id, up, level, a, t).up = up
    BY DEF Row, Cols, NodeRow
  <2>2. Alike(lite, pg, ns, LiteSaveNode(lite[ns], NodeRow(id, up, level, a, t)),
            PgSaveNode(pg, ns, NodeRow(id, up, level, a, t)), Now)
    BY <1>0, <1>1, <2>1, SaveNodeAlike
  <2> QED
    BY <1>1, <2>2, CallPaired
<1>2. ASSUME NEW id, NEW t,
             Call(ns, LiteUpdateNode(lite[ns], id, t), PgUpdateNode(pg, ns, id, t))
      PROVE  ParInv'
  <2>1. Alike(lite, pg, ns, LiteUpdateNode(lite[ns], id, t), PgUpdateNode(pg, ns, id, t), Now)
    BY <1>0, UpdateNodeAlike
  <2> QED
    BY <1>2, <2>1, CallPaired
<1>3. ASSUME NEW id, NEW cascade,
             Call(ns, LiteDeleteNode(lite[ns], id, cascade), PgDeleteNode(pg, ns, id, cascade))
      PROVE  ParInv'
  <2>1. Alike(lite, pg, ns, LiteDeleteNode(lite[ns], id, cascade),
            PgDeleteNode(pg, ns, id, cascade), Now)
    BY <1>0, DeleteNodeAlike
  <2> QED
    BY <1>3, <2>1, CallPaired
<1>4. ASSUME NEW id, NEW t,
             Call(ns, LiteSaveAtom(lite[ns], AtomRow(id, id, t)),
                 PgSaveAtom(pg, ns, AtomRow(id, id, t)))
      PROVE  ParInv'
  <2>1. Row(AtomRow(id, id, t)) /\ AtomRow(id, id, t).tab = "atom" /\ AtomRow(id, id, t).at
            = Now
    BY DEF Row, Cols, AtomRow
  <2>2. \A y \in lite[ns] : y.tab = "atom" => y.at < Now
    BY Later
  <2>3. Alike(lite, pg, ns, LiteSaveAtom(lite[ns], AtomRow(id, id, t)),
            PgSaveAtom(pg, ns, AtomRow(id, id, t)), Now)
    BY <1>0, <2>1, <2>2, SaveAtomAlike
  <2> QED
    BY <1>4, <2>3, CallPaired
<1> QED
  BY <1>1, <1>2, <1>3, <1>4 DEF NodeCalls

LEMMA RawSteps ==
  ASSUME ParInv, NEW ns \in Namespaces, RawCalls(ns)
  PROVE  ParInv'
<1>0. Now \in Nat /\ Paired(lite, pg, Now)
  BY Later
<1>1. ASSUME NEW id, NEW th, NEW at,
             Call(ns, LiteSaveRaw(lite[ns], Event(id, th, at)),
                 PgSaveRaw(pg, ns, Event(id, th, at)))
      PROVE  ParInv'
  <2>1. Row(Event(id, th, at)) /\ Event(id, th, at).tab = "raw"
    BY DEF Row, Cols, Event
  <2>2. Alike(lite, pg, ns, LiteSaveRaw(lite[ns], Event(id, th, at)),
            PgSaveRaw(pg, ns, Event(id, th, at)), Now)
    BY <1>0, <2>1, SaveRawAlike
  <2> QED
    BY <1>1, <2>2, CallPaired
<1>2. ASSUME NEW i, NEW j, NEW th, NEW at,
             Call(ns, LiteSaveBatch(lite[ns], Event(i, th, at), Event(j, th, at)),
                 PgSaveBatch(pg, ns, Event(i, th, at), Event(j, th, at)))
      PROVE  ParInv'
  <2>1. \A id : Row(Event(id, th, at)) /\ Event(id, th, at).tab = "raw"
    BY DEF Row, Cols, Event
  <2>2. Alike(lite, pg, ns, LiteSaveBatch(lite[ns], Event(i, th, at), Event(j, th, at)),
            PgSaveBatch(pg, ns, Event(i, th, at), Event(j, th, at)), Now)
    BY <1>0, <2>1, SaveBatchAlike
  <2> QED
    BY <1>2, <2>2, CallPaired
<1>3. ASSUME NEW at,
             Call(ns, LiteDeleteRawBefore(lite[ns], at), PgDeleteRawBefore(pg, ns, at))
      PROVE  ParInv'
  <2>1. Alike(lite, pg, ns, LiteDeleteRawBefore(lite[ns], at), PgDeleteRawBefore(pg, ns, at),
            Now)
    BY <1>0, DeleteRawBeforeAlike
  <2> QED
    BY <1>3, <2>1, CallPaired
<1> QED
  BY <1>1, <1>2, <1>3 DEF RawCalls

LEMMA CandidateSteps ==
  ASSUME ParInv, NEW ns \in Namespaces, CandidateCalls(ns)
  PROVE  ParInv'
<1>0. Now \in Nat /\ Paired(lite, pg, Now)
  BY Later
<1>1. ASSUME NEW id, NEW t,
             NEW r, r = [tab |-> "cand", id |-> id, status |-> "pending", sig |-> t,
                    evs |-> {t}, ent |-> None, by |-> None, at |-> Now],
             Call(ns, LiteSaveCandidate(lite[ns], r), PgSaveCandidate(pg, ns, r))
      PROVE  ParInv'
  <2>1. Row(r) /\ r.tab = "cand"
    BY <1>1 DEF Row, Cols
  <2>2. Alike(lite, pg, ns, LiteSaveCandidate(lite[ns], r), PgSaveCandidate(pg, ns, r), Now)
    BY <1>0, <2>1, SaveCandidateAlike
  <2> QED
    BY <1>1, <2>2, CallPaired
<1>2. ASSUME NEW id, NEW status, NEW by, NEW e,
             Call(ns, LiteUpdateStatus(lite[ns], id, status, by, e),
                 PgUpdateStatus(pg, ns, id, status, by, e))
      PROVE  ParInv'
  <2>1. Alike(lite, pg, ns, LiteUpdateStatus(lite[ns], id, status, by, e),
            PgUpdateStatus(pg, ns, id, status, by, e), Now)
    BY <1>0, UpdateStatusAlike
  <2> QED
    BY <1>2, <2>1, CallPaired
<1> QED
  BY <1>1, <1>2 DEF CandidateCalls

LEMMA AtomSteps ==
  ASSUME ParInv, NEW ns \in Namespaces, AtomCalls(ns)
  PROVE  ParInv'
<1>0. Now \in Nat /\ Paired(lite, pg, Now)
  BY Later
<1>1. ASSUME NEW id, NEW e, NEW t,
             Call(ns, LiteSaveAtom(lite[ns], AtomRow(id, e, t)),
                 PgSaveAtom(pg, ns, AtomRow(id, e, t)))
      PROVE  ParInv'
  <2>1. Row(AtomRow(id, e, t)) /\ AtomRow(id, e, t).tab = "atom" /\ AtomRow(id, e, t).at = Now
    BY DEF Row, Cols, AtomRow
  <2>2. \A y \in lite[ns] : y.tab = "atom" => y.at < Now
    BY Later
  <2>3. Alike(lite, pg, ns, LiteSaveAtom(lite[ns], AtomRow(id, e, t)),
            PgSaveAtom(pg, ns, AtomRow(id, e, t)), Now)
    BY <1>0, <2>1, <2>2, SaveAtomAlike
  <2> QED
    BY <1>1, <2>3, CallPaired
<1>2. ASSUME NEW old, NEW new,
             Call(ns, LiteSupersede(lite[ns], old, new, Now),
                 PgSupersede(pg, ns, old, new, Now))
      PROVE  ParInv'
  <2>1. Alike(lite, pg, ns, LiteSupersede(lite[ns], old, new, Now),
            PgSupersede(pg, ns, old, new, Now), Now)
    BY <1>0, SupersedeAlike
  <2> QED
    BY <1>2, <2>1, CallPaired
<1>3. ASSUME NEW id,
             Call(ns, LiteDeprecate(lite[ns], id, Now), PgDeprecate(pg, ns, id, Now))
      PROVE  ParInv'
  <2>1. Alike(lite, pg, ns, LiteDeprecate(lite[ns], id, Now), PgDeprecate(pg, ns, id, Now), Now)
    BY <1>0, DeprecateAlike
  <2> QED
    BY <1>3, <2>1, CallPaired
<1>4. ASSUME NEW e, NEW f,
             Call(ns, LiteMigrate(lite[ns], e, f, Now), PgMigrate(pg, ns, e, f, Now))
      PROVE  ParInv'
  <2>1. Alike(lite, pg, ns, LiteMigrate(lite[ns], e, f, Now), PgMigrate(pg, ns, e, f, Now), Now)
    BY <1>0, MigrateAlike
  <2> QED
    BY <1>4, <2>1, CallPaired
<1> QED
  BY <1>1, <1>2, <1>3, <1>4 DEF AtomCalls

LEMMA EntitySteps ==
  ASSUME ParInv, NEW ns \in Namespaces, EntityCalls(ns)
  PROVE  ParInv'
<1>0. Now \in Nat /\ Paired(lite, pg, Now)
  BY Later
<1>1. ASSUME NEW id, NEW t,
             NEW r, r = [tab |-> "ent", id |-> id, name |-> t, type |-> "user",
                    count |-> 0, at |-> 0],
             Call(ns, LiteSaveEntity(lite[ns], r), PgSaveEntity(pg, ns, r))
      PROVE  ParInv'
  <2>1. Row(r) /\ r.tab = "ent"
    BY <1>1 DEF Row, Cols
  <2>2. Alike(lite, pg, ns, LiteSaveEntity(lite[ns], r), PgSaveEntity(pg, ns, r), Now)
    BY <1>0, <2>1, SaveEntityAlike
  <2> QED
    BY <1>1, <2>2, CallPaired
<1>2. ASSUME NEW id, NEW delta, NEW when,
             Call(ns, LiteBump(lite[ns], id, delta, when), PgBump(pg, ns, id, delta, when))
      PROVE  ParInv'
  <2>1. Alike(lite, pg, ns, LiteBump(lite[ns], id, delta, when),
            PgBump(pg, ns, id, delta, when), Now)
    BY <1>0, BumpAlike
  <2> QED
    BY <1>2, <2>1, CallPaired
<1>3. ASSUME NEW id, NEW t,
             Call(ns, LiteRename(lite[ns], id, t), PgRename(pg, ns, id, t))
      PROVE  ParInv'
  <2>1. Alike(lite, pg, ns, LiteRename(lite[ns], id, t), PgRename(pg, ns, id, t), Now)
    BY <1>0, RenameAlike
  <2> QED
    BY <1>3, <2>1, CallPaired
<1>4. ASSUME NEW id, NEW t,
             NEW r, r = [tab |-> "alias", alias |-> t, ent |-> id, at |-> Now],
             Call(ns, LiteSaveAlias(lite[ns], r), PgSaveAlias(pg, ns, r))
      PROVE  ParInv'
  <2>1. Row(r) /\ r.tab = "alias"
    BY <1>4 DEF Row, Cols
  <2>2. Alike(lite, pg, ns, LiteSaveAlias(lite[ns], r), PgSaveAlias(pg, ns, r), Now)
    BY <1>0, <2>1, SaveAliasAlike
  <2> QED
    BY <1>4, <2>2, CallPaired
<1> QED
  BY <1>1, <1>2, <1>3, <1>4 DEF EntityCalls

LEMMA PageSteps ==
  ASSUME ParInv, NEW ns \in Namespaces, PageCalls(ns)
  PROVE  ParInv'
<1>0. Now \in Nat /\ Paired(lite, pg, Now)
  BY Later
<1>1. ASSUME NEW id, NEW t,
             NEW r, r = [Stub(id) EXCEPT !.text = t, !.dirty = FALSE],
             Call(ns, LiteUpsertPage(lite[ns], r), PgUpsertPage(pg, ns, r))
      PROVE  ParInv'
  <2>1. Row(r) /\ r.tab = "page"
    BY <1>1 DEF Row, Cols, Stub
  <2>2. Alike(lite, pg, ns, LiteUpsertPage(lite[ns], r), PgUpsertPage(pg, ns, r), Now)
    BY <1>0, <2>1, UpsertPageAlike
  <2> QED
    BY <1>1, <2>2, CallPaired
<1>2. ASSUME NEW id,
             Call(ns, LiteMarkDirty(lite[ns], Stub(id), Now),
                 PgMarkDirty(pg, ns, Stub(id), Now))
      PROVE  ParInv'
  <2>1. Row(Stub(id)) /\ Stub(id).tab = "page"
    BY DEF Row, Cols, Stub
  <2>2. Alike(lite, pg, ns, LiteMarkDirty(lite[ns], Stub(id), Now),
            PgMarkDirty(pg, ns, Stub(id), Now), Now)
    BY <1>0, <2>1, MarkDirtyAlike
  <2> QED
    BY <1>2, <2>2, CallPaired
<1>3. ASSUME NEW id, NEW t, NEW rev,
             Call(ns, LiteRegen(lite[ns], id, t, rev, Now), PgRegen(pg, ns, id, t, rev, Now))
      PROVE  ParInv'
  <2>1. Alike(lite, pg, ns, LiteRegen(lite[ns], id, t, rev, Now),
            PgRegen(pg, ns, id, t, rev, Now), Now)
    BY <1>0, RegenAlike
  <2> QED
    BY <1>3, <2>1, CallPaired
<1>4. ASSUME NEW id, NEW rev,
             Call(ns, LiteRegenFailure(lite[ns], id, rev, Now),
                 PgRegenFailure(pg, ns, id, rev, Now))
      PROVE  ParInv'
  <2>1. Alike(lite, pg, ns, LiteRegenFailure(lite[ns], id, rev, Now),
            PgRegenFailure(pg, ns, id, rev, Now), Now)
    BY <1>0, RegenFailureAlike
  <2> QED
    BY <1>4, <2>1, CallPaired
<1>5. ASSUME NEW id, NEW t,
             Call(ns, LiteUserEdit(lite[ns], id, t, Now), PgUserEdit(pg, ns, id, t, Now))
      PROVE  ParInv'
  <2>1. Alike(lite, pg, ns, LiteUserEdit(lite[ns], id, t, Now),
            PgUserEdit(pg, ns, id, t, Now), Now)
    BY <1>0, UserEditAlike
  <2> QED
    BY <1>5, <2>1, CallPaired
<1> QED
  BY <1>1, <1>2, <1>3, <1>4, <1>5 DEF PageCalls

LEMMA ActiveSteps ==
  ASSUME ParInv, NEW ns \in Namespaces, ActiveCalls(ns)
  PROVE  ParInv'
<1>0. Now \in Nat /\ Paired(lite, pg, Now)
  BY Later
<1>1. ASSUME NEW th, NEW id,
             NEW r, r = [tab |-> "active", thread |-> th, ent |-> id, at |-> Now,
                    source |-> "recall_hit"],
             Call(ns, LiteUpsertActive(lite[ns], r), PgUpsertActive(pg, ns, r))
      PROVE  ParInv'
  <2>1. Row(r) /\ r.tab = "active"
    BY <1>1 DEF Row, Cols
  <2>2. Alike(lite, pg, ns, LiteUpsertActive(lite[ns], r), PgUpsertActive(pg, ns, r), Now)
    BY <1>0, <2>1, UpsertActiveAlike
  <2> QED
    BY <1>1, <2>2, CallPaired
<1>2. ASSUME NEW th,
             Call(ns, LiteEvictActive(lite[ns], th, 1), PgEvictActive(pg, ns, th, 1))
      PROVE  ParInv'
  <2>1. Alike(lite, pg, ns, LiteEvictActive(lite[ns], th, 1), PgEvictActive(pg, ns, th, 1), Now)
    BY <1>0, EvictActiveAlike
  <2> QED
    BY <1>2, <2>1, CallPaired
<1> QED
  BY <1>1, <1>2 DEF ActiveCalls

LEMMA JournalSteps ==
  ASSUME ParInv, NEW ns \in Namespaces, JournalCalls(ns)
  PROVE  ParInv'
<1>0. Now \in Nat /\ Paired(lite, pg, Now)
  BY Later
<1>1. ASSUME NEW id, NEW action,
             NEW r, r = [tab |-> "jour", id |-> id, at |-> Now, action |-> action,
                    target |-> id],
             Call(ns, LiteAppendJournal(lite[ns], r), PgAppendJournal(pg, ns, r))
      PROVE  ParInv'
  <2>1. Row(r) /\ r.tab = "jour"
    BY <1>1 DEF Row, Cols
  <2>2. Alike(lite, pg, ns, LiteAppendJournal(lite[ns], r), PgAppendJournal(pg, ns, r), Now)
    BY <1>0, <2>1, AppendJournalAlike
  <2> QED
    BY <1>1, <2>2, CallPaired
<1>2. ASSUME NEW actions, NEW n,
             Call(ns, LiteDeleteJournal(lite[ns], actions, Now, n),
                 PgDeleteJournal(pg, ns, actions, Now, n))
      PROVE  ParInv'
  <2>1. Alike(lite, pg, ns, LiteDeleteJournal(lite[ns], actions, Now, n),
            PgDeleteJournal(pg, ns, actions, Now, n), Now)
    BY <1>0, DeleteJournalAlike
  <2> QED
    BY <1>2, <2>1, CallPaired
<1> QED
  BY <1>1, <1>2 DEF JournalCalls

LEMMA MetaSteps ==
  ASSUME ParInv, NEW ns \in Namespaces, MetaCalls(ns), table = "meta"
  PROVE  ParInv'
<1>0. Now \in Nat /\ Paired(lite, pg, Now)
  BY Later
<1>1. ASSUME NEW key, NEW value,
             Call(ns, LiteSetMeta(lite[ns], key, value), PgSetMeta(pg, ns, key, value))
      PROVE  ParInv'
  <2>1. Alike(lite, pg, ns, LiteSetMeta(lite[ns], key, value), PgSetMeta(pg, ns, key, value),
            Now)
    BY <1>0, SetMetaAlike
  <2> QED
    BY <1>1, <2>1, CallPaired
<1> QED
  BY <1>1 DEF MetaCalls

LEMMA EpisodeSteps ==
  ASSUME ParInv, NEW ns \in Namespaces, EpisodeCalls(ns)
  PROVE  ParInv'
<1>0. Now \in Nat /\ Paired(lite, pg, Now)
  BY Later
<1>1. ASSUME NEW id, NEW s, NEW at,
             NEW r, r = [tab |-> "epi", id |-> id, session |-> s, at |-> at],
             Call(ns, LiteSaveEpisode(lite[ns], r), PgSaveEpisode(pg, ns, r))
      PROVE  ParInv'
  <2>1. Row(r) /\ r.tab = "epi"
    BY <1>1 DEF Row, Cols
  <2>2. Alike(lite, pg, ns, LiteSaveEpisode(lite[ns], r), PgSaveEpisode(pg, ns, r), Now)
    BY <1>0, <2>1, SaveEpisodeAlike
  <2> QED
    BY <1>1, <2>2, CallPaired
<1> QED
  BY <1>1 DEF EpisodeCalls

LEMMA DigestSteps ==
  ASSUME ParInv, NEW ns \in Namespaces, DigestCalls(ns)
  PROVE  ParInv'
<1>0. Now \in Nat /\ Paired(lite, pg, Now)
  BY Later
<1>1. ASSUME NEW id, NEW key, NEW t,
             NEW r, r = [tab |-> "dig", id |-> id, kind |-> "week", key |-> key,
                  at |-> calls, text |-> t],
             Call(ns, LiteUpsertDigest(lite[ns], r), PgUpsertDigest(pg, ns, r))
      PROVE  ParInv'
  <2>1. Row(r) /\ r.tab = "dig"
    BY <1>1 DEF Row, Cols
  <2>2. Alike(lite, pg, ns, LiteUpsertDigest(lite[ns], r), PgUpsertDigest(pg, ns, r), Now)
    BY <1>0, <2>1, UpsertDigestAlike
  <2> QED
    BY <1>1, <2>2, CallPaired
<1> QED
  BY <1>1 DEF DigestCalls

LEMMA StepPaired == ParInv /\ [Next]_vars => ParInv'
<1> SUFFICES ASSUME ParInv, [Next]_vars PROVE ParInv'
  OBVIOUS
<1>1. CASE UNCHANGED vars
  BY <1>1 DEF vars, ParInv, Paired, Sound
<1>2. ASSUME NEW ns \in Namespaces, Purge(ns) PROVE ParInv'
  <2>1. table # "meta" /\ Call(ns, [rows |-> {}, out |-> 0],
            [rows |-> PgPurge(pg, ns), out |-> 0])
    BY <1>2 DEF Purge
  <2>2. Alike(lite, pg, ns, [rows |-> {}, out |-> 0], [rows |-> PgPurge(pg, ns), out |-> 0],
            Now)
    BY <2>1, Later, PurgeAlike
  <2> QED
    BY <2>1, <2>2, CallPaired
<1>3. ASSUME NEW ns \in Namespaces,
             \/ NodeCalls(ns)
             \/ RawCalls(ns)
             \/ CandidateCalls(ns)
             \/ AtomCalls(ns)
             \/ EntityCalls(ns)
             \/ PageCalls(ns)
             \/ ActiveCalls(ns)
             \/ JournalCalls(ns)
             \/ table = "meta" /\ MetaCalls(ns)
             \/ EpisodeCalls(ns)
             \/ DigestCalls(ns)
      PROVE  ParInv'
  BY <1>3, NodeSteps, RawSteps, CandidateSteps, AtomSteps, EntitySteps, PageSteps, ActiveSteps,
     JournalSteps, MetaSteps, EpisodeSteps, DigestSteps
<1> QED
  BY <1>1, <1>2, <1>3 DEF Next

LEMMA AlwaysPaired == Spec => []ParInv
<1> QED
  BY Begins, StepPaired, PTL DEF Spec

(* What the invariant says of an agent's rows in the shared tables.          *)
LEMMA RowsAgree == ParInv => SameRows
<1> SUFFICES ASSUME ParInv, NEW ns \in Namespaces PROVE RowsOf(ns) = lite[ns]
  BY DEF SameRows
<1> DEFINE own == {x \in pg : IF x.tab = "meta" THEN x.key[1] = ns ELSE x.ns = ns}
<1>1. \A x \in lite[ns] : Row(x)
  BY DEF ParInv, Paired, Sound
<1>2. ASSUME NEW n \in Namespaces, NEW x \in lite[n] PROVE Dress(n, x) \in own <=> n = ns
  <2>1. Row(x) /\ Dress(n, x) \in pg /\ Dress(n, x).tab = x.tab
    BY RowOf, DressTab DEF ParInv
  <2>2. x.tab = "meta" => Dress(n, x).key = <<n, x.key>>
    BY <2>1, MetaIs
  <2>3. x.tab # "meta" => Dress(n, x).ns = n
    BY <2>1, DressNs
  <2> QED
    BY <2>1, <2>2, <2>3
<1>3. \A y \in own : \E n \in Namespaces : \E x \in lite[n] : y = Dress(n, x)
  BY InDressed DEF ParInv, Paired
<1>4. own = DressedRows(ns, lite[ns])
  <2> HIDE DEF own
  <2> QED
    BY <1>2, <1>3 DEF DressedRows
<1>5. BareRows(own) = lite[ns]
  BY <1>1, <1>4, BareRowsDressed
<1> QED
  BY <1>5 DEF RowsOf

LEMMA AnswersAgree == ParInv => SameAnswers
<1> SUFFICES ASSUME ParInv, NEW ns \in Namespaces PROVE ListsAgree(lite[ns], ns)
        /\ LookupsAgree(lite[ns], ns)
  BY DEF SameAnswers
<1>1. Paired(lite, pg, calls)
  BY DEF ParInv
<1>2. ListsAgree(lite[ns], ns)
  <2>1. \A th \in Texts \cup {Any}, lo, hi \in HostTimes :
          /\ LiteListRaw(lite[ns], th, lo, hi, 1) = BareRows(PgListRaw(pg, ns, th, lo, hi, 1))
          /\ LiteListEpisodes(lite[ns], th, lo, hi, 1)
                 = BareRows(PgListEpisodes(pg, ns, th, lo, hi, 1))
          /\ LiteEpisodesInRange(lite[ns], lo, hi, 1)
                 = BareRows(PgEpisodesInRange(pg, ns, lo, hi, 1))
    BY <1>1, ListRawSame, ListEpisodesSame, EpisodesInRangeSame
  <2>2. LiteRawByIds(lite[ns], Ids) = BareRows(PgRawByIds(pg, ns, Ids))
    BY <1>1, RawByIdsSame
  <2>3. \A e \in Ids \cup {Any}, st \in {"promoted", Any} :
          LiteListCandidates(lite[ns], st, e, 0, calls, 1)
              = BareRows(PgListCandidates(pg, ns, st, e, 0, calls, 1))
    BY <1>1, ListCandidatesSame
  <2>4. \A e \in Ids \cup {Any}, dead \in BOOLEAN :
          /\ LiteListAtoms(lite[ns], e, dead, 1) = BareRows(PgListAtoms(pg, ns, e, dead, 1))
          /\ LiteAtomsInRange(lite[ns], e, 2, calls, dead, 1)
                = BareRows(PgAtomsInRange(pg, ns, e, 2, calls, dead, 1))
    BY <1>1, ListAtomsSame, AtomsInRangeSame
  <2>5. \A id \in Ids \cup {Any}, action \in {"promote", Any} :
          LiteListJournal(lite[ns], action, id, 1, 2, 1)
              = BareRows(PgListJournal(pg, ns, action, id, 1, 2, 1))
    BY <1>1, ListJournalSame
  <2>6. /\ \A e \in Ids \cup {Any} : LiteListAliases(lite[ns], e, 1)
            = BareRows(PgListAliases(pg, ns, e, 1))
        /\ \A th \in Texts : LiteListActive(lite[ns], th, 1)
               = BareRows(PgListActive(pg, ns, th, 1))
    BY <1>1, ListAliasesSame, ListActiveSame
  <2>7. /\ LiteListDirty(lite[ns], 1) = BareRows(PgListDirty(pg, ns, 1))
        /\ LiteListEntities(lite[ns], Any) = BareRows(PgListEntities(pg, ns, Any))
    BY <1>1, ListDirtySame, ListEntitiesSame
  <2>8. /\ LiteListDigests(lite[ns], "week", 1) = BareRows(PgListDigests(pg, ns, "week", 1))
        /\ LiteStats(lite[ns]) = PgStats(pg, ns)
    BY <1>1, ListDigestsSame, StatsSame
  <2> QED
    BY <2>1, <2>2, <2>3, <2>4, <2>5, <2>6, <2>7, <2>8 DEF ListsAgree
<1>3. LookupsAgree(lite[ns], ns)
  <2>1. \A id \in Ids :
          /\ LiteGetNode(lite[ns], id) = PgGetNode(pg, ns, id)
          /\ LiteGetNodeByAtom(lite[ns], id) = PgGetNodeByAtom(pg, ns, id)
          /\ LiteChildren(lite[ns], id) = PgChildren(pg, ns, id)
    BY <1>1, GetNodeSame, GetNodeByAtomSame, ChildrenSame
  <2>2. LiteTree(lite[ns]) = PgTree(pg, ns)
    BY <1>1, TreeSame
  <2>3. ASSUME NEW w \in Texts
        PROVE  /\ LiteFindByName(lite[ns], w, Any) = BareRows(PgFindByName(pg, ns, w, Any))
               /\ LiteFindByAlias(lite[ns], w) = BareRows(PgFindByAlias(pg, ns, w))
               /\ LiteAtomBySignature(lite[ns], w) = BareRows(PgAtomBySignature(pg, ns, w))
    BY <1>1, FindByNameSame, FindByAliasSame, AtomBySignatureSame
  <2>4. ASSUME NEW w \in Texts
        PROVE  /\ LiteFindDuplicate(lite[ns], w, {w}) = PgFindDuplicate(pg, ns, w, {w})
               /\ LiteGetMeta(lite[ns], w) = PgGetMeta(pg, ns, w)
               /\ LiteGetDigest(lite[ns], "week", w) = BareRows(PgGetDigest(pg, ns, "week", w))
    BY <1>1, FindDuplicateSame, GetMetaSame, GetDigestSame
  <2> QED
    BY <2>1, <2>2, <2>3, <2>4 DEF LookupsAgree
<1> QED
  BY <1>2, <1>3

(* For any agents, ids, texts and times and any number of calls: each        *)
(* agent's rows in the shared tables of postgres.py are those that sqlite.py *)
(* keeps for it, every call returns the same, every query shows the same.    *)
THEOREM BackendsAgree == Spec => [](SameRows /\ SameResult /\ SameAnswers)
<1>1. ParInv => SameRows /\ SameResult /\ SameAnswers
  BY RowsAgree, AnswersAgree DEF ParInv, SameResult
<1> QED
  BY <1>1, AlwaysPaired, PTL

=============================================================================
