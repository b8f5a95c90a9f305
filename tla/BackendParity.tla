---------------------------- MODULE BackendParity ----------------------------
(***************************************************************************)
(* The two backends side by side: every call of a program is made of the   *)
(* SQLite and of the Postgres backend.  SQLite gives each namespace tables *)
(* of its own; Postgres keeps all namespaces in one set of tables.  The    *)
(* program above must not be able to tell: not from what a call returns,   *)
(* not from what a list shows, and never through another agent's rows.     *)
(*                                                                         *)
(* `table' picks the methods that a behaviour calls.  Times are the number *)
(* of the call; those a host chooses (raw events) come from HostTimes, all *)
(* with one UTC offset: SQLite compares them as text.  Names are compared  *)
(* after ASCII case folding, full-text search is left out.                 *)
(***************************************************************************)
EXTENDS SqliteTables, PostgresTables

CONSTANTS
    Tables,      \* the scenarios
    Namespaces,
    Ids,
    Texts,
    HostTimes,
    MaxCalls     \* bound: calls per behaviour

ParityAssumption == MaxCalls \in Nat /\ HostTimes \subseteq Nat

VARIABLES
    table,
    lite,   \* lite[ns]: the rows in the tables of ns
    pg,     \* the rows of the shared tables
    last,   \* what the last call returned on each
    calls   \* calls made so far: the clock

vars == <<table, lite, pg, last, calls>>

Init ==
    /\ table \in Tables
    /\ lite = [ns \in Namespaces |-> {}]
    /\ pg = {}
    /\ last = <<0, 0>>
    /\ calls = 0

Now == calls + 1

Call(ns, l, p) ==
    /\ calls < MaxCalls
    /\ calls' = Now
    /\ lite' = [lite EXCEPT ![ns] = l.rows]
    /\ pg' = p.rows
    /\ last' = <<l.out, p.out>>
    /\ UNCHANGED table

-----------------------------------------------------------------------------

AtomRow(id, e, t) ==
    [tab |-> "atom", id |-> id, ent |-> e, sig |-> t, at |-> Now, dead |-> 0,
     by |-> None]

NodeRow(id, up, level, atom, t) ==
    [tab |-> "node", id |-> id, up |-> up, level |-> level, atom |-> atom,
     text |-> t]

(* Memory hands over no parent that is not there.                          *)
NodeCalls(ns) ==
    \/ \E id \in Ids, level \in {"branch", "leaf"}, t \in Texts :
       \E up \in {None} \cup {x.id : x \in {y \in lite[ns] : y.tab = "node"}},
          a \in Ids \cup {None} :
          LET n == NodeRow(id, up, level, a, t)
          IN  Call(ns, LiteSaveNode(lite[ns], n), PgSaveNode(pg, ns, n))
    \/ \E id \in Ids, t \in Texts :
          Call(ns, LiteUpdateNode(lite[ns], id, t), PgUpdateNode(pg, ns, id, t))
    \/ \E id \in Ids, cascade \in BOOLEAN :
          Call(ns, LiteDeleteNode(lite[ns], id, cascade),
                   PgDeleteNode(pg, ns, id, cascade))
    \/ \E id \in Ids, t \in Texts :
          Call(ns, LiteSaveAtom(lite[ns], AtomRow(id, id, t)),
                   PgSaveAtom(pg, ns, AtomRow(id, id, t)))

Event(id, th, at) == [tab |-> "raw", id |-> id, thread |-> th, at |-> at]

RawCalls(ns) ==
    \/ \E id \in Ids, th \in Texts, at \in HostTimes :
          Call(ns, LiteSaveRaw(lite[ns], Event(id, th, at)),
                   PgSaveRaw(pg, ns, Event(id, th, at)))
    \/ \E i, j \in Ids, th \in Texts, at \in HostTimes :
          Call(ns, LiteSaveBatch(lite[ns], Event(i, th, at), Event(j, th, at)),
                   PgSaveBatch(pg, ns, Event(i, th, at), Event(j, th, at)))
    \/ \E at \in HostTimes :
          Call(ns, LiteDeleteRawBefore(lite[ns], at), PgDeleteRawBefore(pg, ns, at))

CandidateCalls(ns) ==
    \/ \E id \in Ids, t \in Texts :
          LET c == [tab |-> "cand", id |-> id, status |-> "pending", sig |-> t,
                    evs |-> {t}, ent |-> None, by |-> None, at |-> Now]
          IN  Call(ns, LiteSaveCandidate(lite[ns], c), PgSaveCandidate(pg, ns, c))
    \/ \E id \in Ids, status \in {"pending", "promoted"}, by \in {None, "user"},
          e \in Ids \cup {None, Any} :
          Call(ns, LiteUpdateStatus(lite[ns], id, status, by, e),
                   PgUpdateStatus(pg, ns, id, status, by, e))

AtomCalls(ns) ==
    \/ \E id, e \in Ids, t \in Texts :
          Call(ns, LiteSaveAtom(lite[ns], AtomRow(id, e, t)),
                   PgSaveAtom(pg, ns, AtomRow(id, e, t)))
    \/ \E old, new \in Ids :
          Call(ns, LiteSupersede(lite[ns], old, new, Now),
                   PgSupersede(pg, ns, old, new, Now))
    \/ \E id \in Ids :
          Call(ns, LiteDeprecate(lite[ns], id, Now), PgDeprecate(pg, ns, id, Now))
    \/ \E e, f \in Ids :
          /\ e # f
          /\ Call(ns, LiteMigrate(lite[ns], e, f, Now), PgMigrate(pg, ns, e, f, Now))

EntityCalls(ns) ==
    \/ \E id \in Ids, t \in Texts :
          LET e == [tab |-> "ent", id |-> id, name |-> t, type |-> "user",
                    count |-> 0, at |-> 0]
          IN  Call(ns, LiteSaveEntity(lite[ns], e), PgSaveEntity(pg, ns, e))
    \/ \E id \in Ids, delta \in {-1, 1}, when \in {0, Now} :
          Call(ns, LiteBump(lite[ns], id, delta, when),
                   PgBump(pg, ns, id, delta, when))
    \/ \E id \in Ids, t \in Texts :
          Call(ns, LiteRename(lite[ns], id, t), PgRename(pg, ns, id, t))
    \/ \E id \in Ids, t \in Texts :
          LET a == [tab |-> "alias", alias |-> t, ent |-> id, at |-> Now]
          IN  Call(ns, LiteSaveAlias(lite[ns], a), PgSaveAlias(pg, ns, a))

Stub(id) ==
    [tab |-> "page", id |-> id, ent |-> id, text |-> None, dirty |-> TRUE,
     fails |-> 0, version |-> 0, rev |-> 0, regen |-> 0, edit |-> 0, at |-> Now,
     made |-> Now]

PageCalls(ns) ==
    \/ \E id \in Ids, t \in Texts :
          LET p == [Stub(id) EXCEPT !.text = t, !.dirty = FALSE]
          IN  Call(ns, LiteUpsertPage(lite[ns], p), PgUpsertPage(pg, ns, p))
    \/ \E id \in Ids :
          Call(ns, LiteMarkDirty(lite[ns], Stub(id), Now),
                   PgMarkDirty(pg, ns, Stub(id), Now))
    \/ \E id \in Ids, t \in Texts, rev \in 0..1 :
          Call(ns, LiteRegen(lite[ns], id, t, rev, Now),
                   PgRegen(pg, ns, id, t, rev, Now))
    \/ \E id \in Ids, rev \in 0..1 :
          Call(ns, LiteRegenFailure(lite[ns], id, rev, Now),
                   PgRegenFailure(pg, ns, id, rev, Now))
    \/ \E id \in Ids, t \in Texts :
          Call(ns, LiteUserEdit(lite[ns], id, t, Now),
                   PgUserEdit(pg, ns, id, t, Now))

ActiveCalls(ns) ==
    \/ \E th \in Texts, id \in Ids :
          LET r == [tab |-> "active", thread |-> th, ent |-> id, at |-> Now,
                    source |-> "recall_hit"]
          IN  Call(ns, LiteUpsertActive(lite[ns], r), PgUpsertActive(pg, ns, r))
    \/ \E th \in Texts :
          Call(ns, LiteEvictActive(lite[ns], th, 1), PgEvictActive(pg, ns, th, 1))

JournalCalls(ns) ==
    \/ \E id \in Ids, action \in {"promote", "extract_run"} :
          LET j == [tab |-> "jour", id |-> id, at |-> Now, action |-> action,
                    target |-> id]
          IN  Call(ns, LiteAppendJournal(lite[ns], j), PgAppendJournal(pg, ns, j))
    \/ \E actions \in SUBSET {"extract_run"}, n \in 0..1 :
          Call(ns, LiteDeleteJournal(lite[ns], actions, Now, n),
                   PgDeleteJournal(pg, ns, actions, Now, n))

MetaCalls(ns) ==
    \E key, value \in Texts :
        Call(ns, LiteSetMeta(lite[ns], key, value), PgSetMeta(pg, ns, key, value))

EpisodeCalls(ns) ==
    \E id \in Ids, s \in Texts, at \in HostTimes :
        LET e == [tab |-> "epi", id |-> id, session |-> s, at |-> at]
        IN  Call(ns, LiteSaveEpisode(lite[ns], e), PgSaveEpisode(pg, ns, e))

DigestCalls(ns) ==
    \E id \in Ids, key, t \in Texts :
        LET d == [tab |-> "dig", id |-> id, kind |-> "week", key |-> key,
                  at |-> calls, text |-> t]
        IN  Call(ns, LiteUpsertDigest(lite[ns], d), PgUpsertDigest(pg, ns, d))

(* An agent is removed: its rows go, in Postgres from all tables but meta. *)
Purge(ns) ==
    /\ table # "meta"
    /\ Call(ns, [rows |-> {}, out |-> 0], [rows |-> PgPurge(pg, ns), out |-> 0])

Next ==
    \E ns \in Namespaces :
        \/ table = "nodes" /\ NodeCalls(ns)
        \/ table = "raw" /\ RawCalls(ns)
        \/ table = "candidates" /\ CandidateCalls(ns)
        \/ table = "atoms" /\ AtomCalls(ns)
        \/ table = "entities" /\ EntityCalls(ns)
        \/ table = "pages" /\ PageCalls(ns)
        \/ table = "active" /\ ActiveCalls(ns)
        \/ table = "journal" /\ JournalCalls(ns)
        \/ table = "meta" /\ MetaCalls(ns)
        \/ table = "episodes" /\ EpisodeCalls(ns)
        \/ table = "digests" /\ DigestCalls(ns)
        \/ Purge(ns)

Spec == Init /\ [][Next]_vars

-----------------------------------------------------------------------------

(* What ns sees of a row of the shared tables.                             *)
Bare(x) ==
    IF x.tab = "meta" THEN [x EXCEPT !.key = x.key[2]]
    ELSE [k \in DOMAIN x \ {"ns"} |-> x[k]]

BareRows(S) == {Bare(x) : x \in S}

RowsOf(ns) ==
    BareRows({x \in pg : IF x.tab = "meta" THEN x.key[1] = ns ELSE x.ns = ns})

(* A namespace's rows in the shared tables are those it would have alone:  *)
(* no statement touches another namespace's, or treats a conflict, a       *)
(* missing value, a stale revision or a cascade differently.               *)
SameRows == \A ns \in Namespaces : RowsOf(ns) = lite[ns]

(* "so that SQLite and Postgres behave identically": a call fails on both  *)
(* or on neither, and reports the same number of rows.                     *)
SameResult == last[1] = last[2]

ListsAgree(T, ns) ==
    /\ \A th \in Texts \cup {Any}, lo, hi \in HostTimes :
          /\ LiteListRaw(T, th, lo, hi, 1) = BareRows(PgListRaw(pg, ns, th, lo, hi, 1))
          /\ LiteListEpisodes(T, th, lo, hi, 1)
                = BareRows(PgListEpisodes(pg, ns, th, lo, hi, 1))
          /\ LiteEpisodesInRange(T, lo, hi, 1)
                = BareRows(PgEpisodesInRange(pg, ns, lo, hi, 1))
    /\ LiteRawByIds(T, Ids) = BareRows(PgRawByIds(pg, ns, Ids))
    /\ \A e \in Ids \cup {Any}, st \in {"promoted", Any} :
          LiteListCandidates(T, st, e, 0, calls, 1)
              = BareRows(PgListCandidates(pg, ns, st, e, 0, calls, 1))
    /\ \A e \in Ids \cup {Any}, dead \in BOOLEAN :
          /\ LiteListAtoms(T, e, dead, 1) = BareRows(PgListAtoms(pg, ns, e, dead, 1))
          /\ LiteAtomsInRange(T, e, 2, calls, dead, 1)
                = BareRows(PgAtomsInRange(pg, ns, e, 2, calls, dead, 1))
    /\ \A id \in Ids \cup {Any}, action \in {"promote", Any} :
          LiteListJournal(T, action, id, 1, 2, 1)
              = BareRows(PgListJournal(pg, ns, action, id, 1, 2, 1))
    /\ \A e \in Ids \cup {Any} :
          LiteListAliases(T, e, 1) = BareRows(PgListAliases(pg, ns, e, 1))
    /\ \A th \in Texts : LiteListActive(T, th, 1) = BareRows(PgListActive(pg, ns, th, 1))
    /\ LiteListDirty(T, 1) = BareRows(PgListDirty(pg, ns, 1))
    /\ LiteListEntities(T, Any) = BareRows(PgListEntities(pg, ns, Any))
    /\ LiteListDigests(T, "week", 1) = BareRows(PgListDigests(pg, ns, "week", 1))
    /\ LiteStats(T) = PgStats(pg, ns)

LookupsAgree(T, ns) ==
    /\ \A id \in Ids :
          /\ LiteGetNode(T, id) = PgGetNode(pg, ns, id)
          /\ LiteGetNodeByAtom(T, id) = PgGetNodeByAtom(pg, ns, id)
          /\ LiteChildren(T, id) = PgChildren(pg, ns, id)
    /\ LiteTree(T) = PgTree(pg, ns)
    /\ \A t \in Texts :
          /\ LiteFindByName(T, t, Any) = BareRows(PgFindByName(pg, ns, t, Any))
          /\ LiteFindByAlias(T, t) = BareRows(PgFindByAlias(pg, ns, t))
          /\ LiteAtomBySignature(T, t) = BareRows(PgAtomBySignature(pg, ns, t))
          /\ LiteFindDuplicate(T, t, {t}) = PgFindDuplicate(pg, ns, t, {t})
          /\ LiteGetMeta(T, t) = PgGetMeta(pg, ns, t)
          /\ LiteGetDigest(T, "week", t) = BareRows(PgGetDigest(pg, ns, "week", t))

(* Every list and every lookup shows the same on both, its limit counted   *)
(* over the rows of the namespace that asks.                               *)
SameAnswers ==
    \A ns \in Namespaces : ListsAgree(lite[ns], ns) /\ LookupsAgree(lite[ns], ns)

=============================================================================
