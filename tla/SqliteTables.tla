---------------------------- MODULE SqliteTables ----------------------------
(***************************************************************************)
(* storage/backends/sqlite.py: T is the rows of one namespace, whose tables *)
(* carry its name as a prefix.  One operator per method, returning the rows *)
(* and what the caller gets; queries return the set of rows.                *)
(***************************************************************************)
EXTENDS Sql

LiteSaveNode(T, n) ==
    IF (n.level = "leaf") # (n.atom # None) THEN Refused(T)
    ELSE Insert(T, [n EXCEPT !.text = IF n.level = "leaf" THEN None ELSE @],
           LAMBDA x : /\ x.tab = "node"
                      /\ (x.id = n.id \/ (n.atom # None /\ x.atom = n.atom)))

LiteUpdateNode(T, id, text) ==
    Update(T, LAMBDA x : x.tab = "node" /\ x.id = id,
              LAMBDA x : [x EXCEPT !.text = text])

LiteKids(T, ids) == {x.id : x \in {y \in T : y.tab = "node" /\ y.up \in ids}}

LiteDeleteNode(T, id, cascade) ==
    LET ids == {x.id : x \in {y \in T : y.tab = "node"}}
        gone == IF cascade THEN Reached(ids, {id}, LAMBDA C : LiteKids(T, C))
                ELSE {id}
    IN  IF id \notin ids THEN [rows |-> T, out |-> "absent"]
        ELSE IF ~cascade /\ LiteKids(T, {id}) # {} THEN Refused(T)
        ELSE [Delete(T, LAMBDA x : x.tab = "node" /\ x.id \in gone)
              EXCEPT !.out = "deleted"]

(* The content of a leaf is the assertion of its atom (LEFT JOIN).         *)
LiteContent(T, n) ==
    LET joined == {a \in T : a.tab = "atom" /\ a.id = n.atom}
    IN  IF joined = {} THEN n.text ELSE (CHOOSE a \in joined : TRUE).sig

LiteNodes(T, S) == {<<n.id, LiteContent(T, n)>> : n \in S}

LiteGetNode(T, id) ==
    LiteNodes(T, {n \in T : n.tab = "node" /\ n.id = id})

LiteGetNodeByAtom(T, a) ==
    LiteNodes(T, {n \in T : n.tab = "node" /\ n.atom = a})

LiteChildren(T, up) ==
    LiteNodes(T, {n \in T : n.tab = "node" /\ n.up = up})

LiteTree(T) == LiteNodes(T, {n \in T : n.tab = "node"})

LiteSaveRaw(T, e) ==
    Insert(T, e, LAMBDA x : x.tab = "raw" /\ x.id = e.id)

(* One INSERT per event; the first that fails rolls all of them back.      *)
LiteSaveBatch(T, e, f) ==
    LET first == LiteSaveRaw(T, e)
        second == LiteSaveRaw(first.rows, f)
    IN  IF "raised" \in {first.out, second.out} THEN Refused(T) ELSE second

LiteDeleteRawBefore(T, at) ==
    Delete(T, LAMBDA x : x.tab = "raw" /\ x.at < at)

LiteListRaw(T, thread, lo, hi, n) ==
    Latest({x \in T : /\ x.tab = "raw" /\ Matches(thread, x.thread)
                      /\ Within(x.at, lo, hi)}, n)

LiteRawByIds(T, ids) == {x \in T : x.tab = "raw" /\ x.id \in ids}

LiteSaveCandidate(T, c) ==
    Insert(T, c, LAMBDA x : x.tab = "cand" /\ x.id = c.id)

(* decided_by and target_entity_id keep their value when not given.        *)
LiteUpdateStatus(T, id, status, by, ent) ==
    Update(T, LAMBDA x : x.tab = "cand" /\ x.id = id,
              LAMBDA x : [x EXCEPT !.status = status,
                                   !.by = IF by = None THEN @ ELSE by,
                                   !.ent = IF ent = Any THEN @ ELSE ent])

LiteFindDuplicate(T, sig, evs) ==
    /\ evs # {}
    /\ \E x \in T : /\ x.tab = "cand" /\ x.status = "promoted"
                    /\ x.sig = sig /\ x.evs = evs

LiteListCandidates(T, status, ent, lo, hi, n) ==
    Latest({x \in T : /\ x.tab = "cand" /\ Matches(status, x.status)
                      /\ Matches(ent, x.ent) /\ Within(x.at, lo, hi)}, n)

LiteSaveAtom(T, a) ==
    Insert(T, a, LAMBDA x : x.tab = "atom" /\ x.id = a.id)

LiteSupersede(T, old, new, when) ==
    Update(T, LAMBDA x : x.tab = "atom" /\ x.id = old /\ x.dead = 0,
              LAMBDA x : [x EXCEPT !.by = new, !.dead = when])

LiteDeprecate(T, id, when) ==
    Update(T, LAMBDA x : x.tab = "atom" /\ x.id = id,
              LAMBDA x : [x EXCEPT !.dead = when])

LiteListAtoms(T, ent, dead, n) ==
    Latest({x \in T : /\ x.tab = "atom" /\ Matches(ent, x.ent)
                      /\ (dead \/ x.dead = 0)}, n)

LiteAtomsInRange(T, ent, lo, hi, dead, n) ==
    Latest({x \in T : /\ x.tab = "atom" /\ Within(x.at, lo, hi)
                      /\ Matches(ent, x.ent) /\ (dead \/ x.dead = 0)}, n)

LiteAtomBySignature(T, sig) ==
    Earliest({x \in T : x.tab = "atom" /\ x.dead = 0 /\ x.sig = sig}, 1)

(* The keeper of a text: the target's, else the first row that migrates;   *)
(* a SELECT without an order is taken to list rows as they were made.      *)
LiteMigrate(T, src, tgt, when) ==
    LET live(e) == {x \in T : x.tab = "atom" /\ x.ent = e /\ x.dead = 0}
        same(S, x) == {y \in S : y.sig = x.sig}
        keeper(x) == CHOOSE y \in Earliest(IF same(live(tgt), x) # {}
                                           THEN same(live(tgt), x)
                                           ELSE same(live(src), x), 1) : TRUE
        moves == {x \in live(src) : keeper(x) = x}
    IN  [rows |-> {IF x \notin live(src) THEN x
                   ELSE IF x \in moves THEN [x EXCEPT !.ent = tgt]
                   ELSE [x EXCEPT !.by = keeper(x).id, !.dead = when] : x \in T},
         out |-> Cardinality(moves)]

LiteSaveEntity(T, e) ==
    Insert(T, e, LAMBDA x : x.tab = "ent" /\ x.id = e.id)

LiteBump(T, id, delta, when) ==
    Update(T, LAMBDA x : x.tab = "ent" /\ x.id = id,
              LAMBDA x : [x EXCEPT !.count = @ + delta,
                                   !.at = IF when = 0 THEN @ ELSE when])

LiteRename(T, id, name) ==
    Update(T, LAMBDA x : x.tab = "ent" /\ x.id = id,
              LAMBDA x : [x EXCEPT !.name = name])

(* LIMIT 1 without an order: any of them.                                  *)
LiteFindByName(T, name, type) ==
    {x \in T : x.tab = "ent" /\ x.name = name /\ Matches(type, x.type)}

LiteListEntities(T, type) == {x \in T : x.tab = "ent" /\ Matches(type, x.type)}

LiteSaveAlias(T, a) ==
    LET there == \E x \in T : x.tab = "alias" /\ x.alias = a.alias /\ x.ent = a.ent
    IN  [rows |-> IF there THEN T ELSE T \cup {a}, out |-> "done"]

LiteFindByAlias(T, alias) ==
    {x \in T : /\ x.tab = "ent"
               /\ \E a \in T : a.tab = "alias" /\ a.alias = alias /\ a.ent = x.id}

LiteListAliases(T, ent, n) ==
    Latest({x \in T : x.tab = "alias" /\ Matches(ent, x.ent)}, n)

(* Pages: id and created_at survive an upsert; the revision goes up.       *)
LiteUpsertPage(T, p) ==
    Upsert(T, p, LAMBDA x : x.tab = "page" /\ x.ent = p.ent,
           LAMBDA x : [p EXCEPT !.id = x.id, !.made = x.made, !.rev = x.rev + 1])

LiteMarkDirty(T, stub, when) ==
    Upsert(T, stub, LAMBDA x : x.tab = "page" /\ x.ent = stub.ent,
           LAMBDA x : [x EXCEPT !.dirty = TRUE, !.rev = @ + 1, !.at = when])

LiteRegen(T, ent, text, rev, when) ==
    Update(T, LAMBDA x : /\ x.tab = "page" /\ x.ent = ent
                         /\ (rev = 0 \/ x.rev = rev),
              LAMBDA x : [x EXCEPT !.text = text, !.dirty = FALSE, !.fails = 0,
                                   !.version = @ + 1, !.rev = @ + 1,
                                   !.regen = when, !.at = when])

LiteRegenFailure(T, ent, rev, when) ==
    Update(T, LAMBDA x : /\ x.tab = "page" /\ x.ent = ent
                         /\ (rev = 0 \/ x.rev = rev),
              LAMBDA x : [x EXCEPT !.fails = @ + 1, !.dirty = TRUE, !.at = when])

LiteUserEdit(T, ent, text, when) ==
    Update(T, LAMBDA x : x.tab = "page" /\ x.ent = ent,
              LAMBDA x : [x EXCEPT !.text = text, !.version = @ + 1,
                                   !.rev = @ + 1, !.edit = when, !.at = when])

LiteDirtyBefore(x, y) ==
    IF x.regen = 0 \/ y.regen = 0 THEN y.regen # 0 \/ (x.regen = 0 /\ x.at < y.at)
    ELSE x.regen < y.regen

LiteListDirty(T, n) ==
    LET S == {x \in T : x.tab = "page" /\ x.dirty}
    IN  {x \in S : Cardinality({y \in S : LiteDirtyBefore(y, x)}) < n}

LiteStats(T) ==
    [tab \in {"raw", "atom", "ent", "page"} |->
        Cardinality({x \in T : x.tab = tab /\ (tab = "page" => x.dirty)})]

LiteUpsertActive(T, r) ==
    Upsert(T, r, LAMBDA x : x.tab = "active" /\ x.thread = r.thread /\ x.ent = r.ent,
           LAMBDA x : [x EXCEPT !.at = r.at, !.source = r.source])

LiteListActive(T, thread, n) ==
    Latest({x \in T : x.tab = "active" /\ x.thread = thread}, n)

LiteEvictActive(T, thread, keep) ==
    LET kept == {x.ent : x \in LiteListActive(T, thread, keep)}
    IN  Delete(T, LAMBDA x : x.tab = "active" /\ x.thread = thread
                             /\ x.ent \notin kept)

LiteAppendJournal(T, j) ==
    Insert(T, j, LAMBDA x : x.tab = "jour" /\ x.id = j.id)

LiteListJournal(T, action, target, lo, hi, n) ==
    Latest({x \in T : /\ x.tab = "jour" /\ Matches(action, x.action)
                      /\ Matches(target, x.target) /\ Within(x.at, lo, hi)}, n)

LiteDeleteJournal(T, actions, before, n) ==
    LET ids == {x.id : x \in Earliest({y \in T :
                   y.tab = "jour" /\ y.at < before /\ y.action \in actions}, n)}
    IN  IF actions = {} \/ n < 1 THEN [rows |-> T, out |-> 0]
        ELSE Delete(T, LAMBDA x : x.tab = "jour" /\ x.id \in ids)

LiteSetMeta(T, key, value) ==
    Upsert(T, [tab |-> "meta", key |-> key, value |-> value],
           LAMBDA x : x.tab = "meta" /\ x.key = key,
           LAMBDA x : [x EXCEPT !.value = value])

LiteGetMeta(T, key) == {x.value : x \in {y \in T : y.tab = "meta" /\ y.key = key}}

LiteSaveEpisode(T, e) ==
    Insert(T, e, LAMBDA x : x.tab = "epi" /\ x.id = e.id)

(* Unlike the other lists, this one excludes its upper bound.              *)
LiteListEpisodes(T, session, lo, hi, n) ==
    Latest({x \in T : /\ x.tab = "epi" /\ Matches(session, x.session)
                      /\ lo <= x.at /\ x.at < hi}, n)

LiteEpisodesInRange(T, lo, hi, n) ==
    Earliest({x \in T : x.tab = "epi" /\ lo <= x.at /\ x.at < hi}, n)

(* Looks the period up, then updates that id or inserts.                   *)
LiteUpsertDigest(T, d) ==
    LET there == {x \in T : x.tab = "dig" /\ x.kind = d.kind /\ x.key = d.key}
    IN  IF there = {}
        THEN Insert(T, d, LAMBDA x : x.tab = "dig" /\ x.id = d.id)
        ELSE [Update(T, LAMBDA x : x.tab = "dig" /\ x.id \in {y.id : y \in there},
                     LAMBDA x : [x EXCEPT !.at = d.at, !.text = d.text])
              EXCEPT !.out = "done"]

LiteGetDigest(T, kind, key) ==
    {x \in T : x.tab = "dig" /\ x.kind = kind /\ x.key = key}

LiteListDigests(T, kind, n) ==
    Latest({x \in T : x.tab = "dig" /\ Matches(kind, x.kind)}, n)

=============================================================================
