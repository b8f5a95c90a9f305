---------------------------- MODULE PostgresTables ----------------------------
(***************************************************************************)
(* storage/backends/postgres.py: the same methods on R, the rows of tables *)
(* that all namespaces share, told apart by a namespace column (meta: by a *)
(* prefix of the key).  A statement that forgets its clause reaches into   *)
(* another agent's memory.                                                 *)
(***************************************************************************)
EXTENDS Sql

(* WHERE namespace = %s, on a row of table tab.                            *)
Of(x, tab, ns) == x.tab = tab /\ x.ns = ns

In(ns, r) == [k \in DOMAIN r \cup {"ns"} |-> IF k = "ns" THEN ns ELSE r[k]]

(* The self-reference of the table: a parent has to be there.              *)
PgSaveNode(R, ns, n) ==
    IF \/ (n.level = "leaf") # (n.atom # None)
       \/ n.up # None /\ \A x \in R : ~(Of(x, "node", ns) /\ x.id = n.up)
    THEN Refused(R)
    ELSE Insert(R, In(ns, [n EXCEPT !.text = IF n.level = "leaf" THEN None ELSE @]),
           LAMBDA x : /\ Of(x, "node", ns)
                      /\ (x.id = n.id \/ (n.atom # None /\ x.atom = n.atom)))

PgUpdateNode(R, ns, id, text) ==
    Update(R, LAMBDA x : Of(x, "node", ns) /\ x.id = id,
              LAMBDA x : [x EXCEPT !.text = text])

PgKids(R, ns, ids) == {x.id : x \in {y \in R : Of(y, "node", ns) /\ y.up \in ids}}

PgDeleteNode(R, ns, id, cascade) ==
    LET ids == {x.id : x \in {y \in R : Of(y, "node", ns)}}
        gone == IF cascade THEN Reached(ids, {id}, LAMBDA C : PgKids(R, ns, C))
                ELSE {id}
    IN  IF id \notin ids THEN [rows |-> R, out |-> "absent"]
        ELSE IF ~cascade /\ PgKids(R, ns, {id}) # {} THEN Refused(R)
        ELSE [Delete(R, LAMBDA x : Of(x, "node", ns) /\ x.id \in gone)
              EXCEPT !.out = "deleted"]

(* The content of a leaf is the assertion of its atom (LEFT JOIN).         *)
PgContent(R, ns, n) ==
    LET joined == {a \in R : Of(a, "atom", ns) /\ a.id = n.atom}
    IN  IF joined = {} THEN n.text ELSE (CHOOSE a \in joined : TRUE).sig

PgNodes(R, ns, S) == {<<n.id, PgContent(R, ns, n)>> : n \in S}

PgGetNode(R, ns, id) ==
    PgNodes(R, ns, {n \in R : Of(n, "node", ns) /\ n.id = id})

PgGetNodeByAtom(R, ns, a) ==
    PgNodes(R, ns, {n \in R : Of(n, "node", ns) /\ n.atom = a})

PgChildren(R, ns, up) ==
    PgNodes(R, ns, {n \in R : Of(n, "node", ns) /\ n.up = up})

PgTree(R, ns) == PgNodes(R, ns, {n \in R : Of(n, "node", ns)})

PgSaveRaw(R, ns, e) ==
    Insert(R, In(ns, e), LAMBDA x : Of(x, "raw", ns) /\ x.id = e.id)

(* One INSERT per event; the first that fails rolls all of them back.      *)
PgSaveBatch(R, ns, e, f) ==
    LET first == PgSaveRaw(R, ns, e)
        second == PgSaveRaw(first.rows, ns, f)
    IN  IF "raised" \in {first.out, second.out} THEN Refused(R) ELSE second

PgDeleteRawBefore(R, ns, at) ==
    Delete(R, LAMBDA x : Of(x, "raw", ns) /\ x.at < at)

PgListRaw(R, ns, thread, lo, hi, n) ==
    Latest({x \in R : /\ Of(x, "raw", ns) /\ Matches(thread, x.thread)
                      /\ Within(x.at, lo, hi)}, n)

PgRawByIds(R, ns, ids) == {x \in R : Of(x, "raw", ns) /\ x.id \in ids}

PgSaveCandidate(R, ns, c) ==
    Insert(R, In(ns, c), LAMBDA x : Of(x, "cand", ns) /\ x.id = c.id)

(* decided_by and target_entity_id keep their value when not given.        *)
PgUpdateStatus(R, ns, id, status, by, ent) ==
    Update(R, LAMBDA x : Of(x, "cand", ns) /\ x.id = id,
              LAMBDA x : [x EXCEPT !.status = status,
                                   !.by = IF by = None THEN @ ELSE by,
                                   !.ent = IF ent = Any THEN @ ELSE ent])

PgFindDuplicate(R, ns, sig, evs) ==
    /\ evs # {}
    /\ \E x \in R : /\ Of(x, "cand", ns) /\ x.status = "promoted"
                    /\ x.sig = sig /\ x.evs = evs

PgListCandidates(R, ns, status, ent, lo, hi, n) ==
    Latest({x \in R : /\ Of(x, "cand", ns) /\ Matches(status, x.status)
                      /\ Matches(ent, x.ent) /\ Within(x.at, lo, hi)}, n)

PgSaveAtom(R, ns, a) ==
    Insert(R, In(ns, a), LAMBDA x : Of(x, "atom", ns) /\ x.id = a.id)

PgSupersede(R, ns, old, new, when) ==
    Update(R, LAMBDA x : Of(x, "atom", ns) /\ x.id = old /\ x.dead = 0,
              LAMBDA x : [x EXCEPT !.by = new, !.dead = when])

PgDeprecate(R, ns, id, when) ==
    Update(R, LAMBDA x : Of(x, "atom", ns) /\ x.id = id,
              LAMBDA x : [x EXCEPT !.dead = when])

PgListAtoms(R, ns, ent, dead, n) ==
    Latest({x \in R : /\ Of(x, "atom", ns) /\ Matches(ent, x.ent)
                      /\ (dead \/ x.dead = 0)}, n)

PgAtomsInRange(R, ns, ent, lo, hi, dead, n) ==
    Latest({x \in R : /\ Of(x, "atom", ns) /\ Within(x.at, lo, hi)
                      /\ Matches(ent, x.ent) /\ (dead \/ x.dead = 0)}, n)

(* Mutant: the scan for a duplicate covers every namespace.                *)
PgAtomOfAnyone(R, ns, sig) ==
    Earliest({x \in R : x.tab = "atom" /\ x.dead = 0 /\ x.sig = sig}, 1)

PgAtomBySignature(R, ns, sig) ==
    Earliest({x \in R : Of(x, "atom", ns) /\ x.dead = 0 /\ x.sig = sig}, 1)

(* The keeper of a text: the target's, else the first row that migrates;   *)
(* a SELECT without an order is taken to list rows as they were made.      *)
PgMigrate(R, ns, src, tgt, when) ==
    LET live(e) == {x \in R : Of(x, "atom", ns) /\ x.ent = e /\ x.dead = 0}
        same(S, x) == {y \in S : y.sig = x.sig}
        keeper(x) == CHOOSE y \in Earliest(IF same(live(tgt), x) # {}
                                           THEN same(live(tgt), x)
                                           ELSE same(live(src), x), 1) : TRUE
        moves == {x \in live(src) : keeper(x) = x}
    IN  [rows |-> {IF x \notin live(src) THEN x
                   ELSE IF x \in moves THEN [x EXCEPT !.ent = tgt]
                   ELSE [x EXCEPT !.by = keeper(x).id, !.dead = when] : x \in R},
         out |-> Cardinality(moves)]

PgSaveEntity(R, ns, e) ==
    Insert(R, In(ns, e), LAMBDA x : Of(x, "ent", ns) /\ x.id = e.id)

PgBump(R, ns, id, delta, when) ==
    Update(R, LAMBDA x : Of(x, "ent", ns) /\ x.id = id,
              LAMBDA x : [x EXCEPT !.count = @ + delta,
                                   !.at = IF when = 0 THEN @ ELSE when])

PgRename(R, ns, id, name) ==
    Update(R, LAMBDA x : Of(x, "ent", ns) /\ x.id = id,
              LAMBDA x : [x EXCEPT !.name = name])

(* LIMIT 1 without an order: any of them.                                  *)
PgFindByName(R, ns, name, type) ==
    {x \in R : Of(x, "ent", ns) /\ x.name = name /\ Matches(type, x.type)}

PgListEntities(R, ns, type) == {x \in R : Of(x, "ent", ns) /\ Matches(type, x.type)}

PgSaveAlias(R, ns, a) ==
    LET there == \E x \in R : Of(x, "alias", ns) /\ x.alias = a.alias /\ x.ent = a.ent
    IN  [rows |-> IF there THEN R ELSE R \cup {In(ns, a)}, out |-> "done"]

PgFindByAlias(R, ns, alias) ==
    {x \in R : /\ Of(x, "ent", ns)
               /\ \E a \in R : Of(a, "alias", ns) /\ a.alias = alias /\ a.ent = x.id}

PgListAliases(R, ns, ent, n) ==
    Latest({x \in R : Of(x, "alias", ns) /\ Matches(ent, x.ent)}, n)

(* Pages: id and created_at survive an upsert; the revision goes up.       *)
PgUpsertPage(R, ns, p) ==
    Upsert(R, In(ns, p), LAMBDA x : Of(x, "page", ns) /\ x.ent = p.ent,
           LAMBDA x : [In(ns, p) EXCEPT !.id = x.id, !.made = x.made, !.rev = x.rev + 1])

PgMarkDirty(R, ns, stub, when) ==
    Upsert(R, In(ns, stub), LAMBDA x : Of(x, "page", ns) /\ x.ent = stub.ent,
           LAMBDA x : [x EXCEPT !.dirty = TRUE, !.rev = @ + 1, !.at = when])

PgRegen(R, ns, ent, text, rev, when) ==
    Update(R, LAMBDA x : /\ Of(x, "page", ns) /\ x.ent = ent
                         /\ (rev = 0 \/ x.rev = rev),
              LAMBDA x : [x EXCEPT !.text = text, !.dirty = FALSE, !.fails = 0,
                                   !.version = @ + 1, !.rev = @ + 1,
                                   !.regen = when, !.at = when])

PgRegenFailure(R, ns, ent, rev, when) ==
    Update(R, LAMBDA x : /\ Of(x, "page", ns) /\ x.ent = ent
                         /\ (rev = 0 \/ x.rev = rev),
              LAMBDA x : [x EXCEPT !.fails = @ + 1, !.dirty = TRUE, !.at = when])

PgUserEdit(R, ns, ent, text, when) ==
    Update(R, LAMBDA x : Of(x, "page", ns) /\ x.ent = ent,
              LAMBDA x : [x EXCEPT !.text = text, !.version = @ + 1,
                                   !.rev = @ + 1, !.edit = when, !.at = when])

PgDirtyBefore(x, y) ==
    IF x.regen = 0 \/ y.regen = 0 THEN y.regen # 0 \/ (x.regen = 0 /\ x.at < y.at)
    ELSE x.regen < y.regen

PgListDirty(R, ns, n) ==
    LET S == {x \in R : Of(x, "page", ns) /\ x.dirty}
    IN  {x \in S : Cardinality({y \in S : PgDirtyBefore(y, x)}) < n}

PgStats(R, ns) ==
    [tab \in {"raw", "atom", "ent", "page"} |->
        Cardinality({x \in R : x.tab = tab /\ x.ns = ns /\ (tab = "page" => x.dirty)})]

PgUpsertActive(R, ns, r) ==
    Upsert(R, In(ns, r), LAMBDA x : Of(x, "active", ns) /\ x.thread = r.thread /\ x.ent = r.ent,
           LAMBDA x : [x EXCEPT !.at = r.at, !.source = r.source])

PgListActive(R, ns, thread, n) ==
    Latest({x \in R : Of(x, "active", ns) /\ x.thread = thread}, n)

(* Mutant: the newest of all threads are kept, not of this one.            *)
PgEvictAcrossThreads(R, ns, thread, keep) ==
    LET kept == {x.ent : x \in Latest({y \in R : Of(y, "active", ns)}, keep)}
    IN  Delete(R, LAMBDA x : Of(x, "active", ns) /\ x.thread = thread
                             /\ x.ent \notin kept)

PgEvictActive(R, ns, thread, keep) ==
    LET kept == {x.ent : x \in PgListActive(R, ns, thread, keep)}
    IN  Delete(R, LAMBDA x : Of(x, "active", ns) /\ x.thread = thread
                             /\ x.ent \notin kept)

PgAppendJournal(R, ns, j) ==
    Insert(R, In(ns, j), LAMBDA x : Of(x, "jour", ns) /\ x.id = j.id)

PgListJournal(R, ns, action, target, lo, hi, n) ==
    Latest({x \in R : /\ Of(x, "jour", ns) /\ Matches(action, x.action)
                      /\ Matches(target, x.target) /\ Within(x.at, lo, hi)}, n)

(* Mutant: the DELETE matches ids alone.                                   *)
PgDeleteJournalById(R, ns, actions, before, n) ==
    LET ids == {x.id : x \in Earliest({y \in R : /\ Of(y, "jour", ns) /\ y.at < before
                                               /\ y.action \in actions}, n)}
    IN  IF actions = {} \/ n < 1 THEN [rows |-> R, out |-> 0]
        ELSE Delete(R, LAMBDA x : x.tab = "jour" /\ x.id \in ids)

PgDeleteJournal(R, ns, actions, before, n) ==
    LET ids == {x.id : x \in Earliest({y \in R : /\ Of(y, "jour", ns) /\ y.at < before
                                               /\ y.action \in actions}, n)}
    IN  IF actions = {} \/ n < 1 THEN [rows |-> R, out |-> 0]
        ELSE Delete(R, LAMBDA x : Of(x, "jour", ns) /\ x.id \in ids)

PgMetaKey(ns, key) == <<ns, key>>

PgSetMeta(R, ns, key, value) ==
    Upsert(R, [tab |-> "meta", key |-> PgMetaKey(ns, key), value |-> value],
           LAMBDA x : x.tab = "meta" /\ x.key = PgMetaKey(ns, key),
           LAMBDA x : [x EXCEPT !.value = value])

PgGetMeta(R, ns, key) ==
    {x.value : x \in {y \in R : y.tab = "meta" /\ y.key = PgMetaKey(ns, key)}}

PgSaveEpisode(R, ns, e) ==
    Insert(R, In(ns, e), LAMBDA x : Of(x, "epi", ns) /\ x.id = e.id)

(* Unlike the other lists, this one excludes its upper bound.              *)
PgListEpisodes(R, ns, session, lo, hi, n) ==
    Latest({x \in R : /\ Of(x, "epi", ns) /\ Matches(session, x.session)
                      /\ lo <= x.at /\ x.at < hi}, n)

PgEpisodesInRange(R, ns, lo, hi, n) ==
    Earliest({x \in R : Of(x, "epi", ns) /\ lo <= x.at /\ x.at < hi}, n)

(* ON CONFLICT of the period; another period with that id is an error.     *)
PgUpsertDigest(R, ns, d) ==
    LET same(x) == Of(x, "dig", ns) /\ x.kind = d.kind /\ x.key = d.key
    IN  IF \E x \in R : Of(x, "dig", ns) /\ x.id = d.id /\ ~same(x)
           /\ ~\E y \in R : same(y)
        THEN Refused(R)
        ELSE Upsert(R, In(ns, d), same,
                    LAMBDA x : [x EXCEPT !.at = d.at, !.text = d.text])

(* purge_namespace, when an agent is removed.                              *)
PgPurge(R, ns) ==
    {x \in R : IF x.tab = "meta" THEN TRUE ELSE x.ns # ns}

PgGetDigest(R, ns, kind, key) ==
    {x \in R : Of(x, "dig", ns) /\ x.kind = kind /\ x.key = key}

PgListDigests(R, ns, kind, n) ==
    Latest({x \in R : Of(x, "dig", ns) /\ Matches(kind, x.kind)}, n)

=============================================================================
