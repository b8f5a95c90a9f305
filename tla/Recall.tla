------------------------------- MODULE Recall -------------------------------
(* One recall of the host's prompt builder (recall_for_prompt): cache lookup, *)
(* routing, one read per source, and the ranked pipeline that cuts the        *)
(* candidates down to a prompt, while other callers of the same store promote *)
(* and retract atoms, regenerate pages and review manual documents.  Every    *)
(* source is a separate read: the store may change between two of them.       *)
(* Named bounds: per-source limits are never reached, texts match a query or  *)
(* not (Found), and a recall takes no time on the scale of the cache's TTL.   *)
EXTENDS Integers, Sequences, FiniteSets, Functions

CONSTANTS Atoms, Entities, Events, Queries,
          Entity,        \* [Atoms -> Entities]
          Evidence,      \* [Atoms -> SUBSET Events]: raw_event_ids and the quote
          Named,         \* [Queries -> SUBSET Entities]: aliases in the query
          Pronoun,       \* [Queries -> BOOLEAN]: "that project"
          Found,         \* [Queries -> SUBSET (Atoms \cup Events)]: matched tokens
          Current,       \* events of the session that asks
          Vector,        \* is a vector index configured?
          Similar(_, _), \* Jaccard similarity of two snippets reaches 0.85
          Cost,          \* tokens of a snippet of each layer
          Total, Limit, PerEntity, Keep, Ttl, MaxEntries, RawPolicies, MaxTime

RecallAssumption ==
    /\ Entity \in [Atoms -> Entities] /\ Evidence \in [Atoms -> SUBSET Events]
    /\ Named \in [Queries -> SUBSET Entities]
    /\ IsFiniteSet(Atoms) /\ IsFiniteSet(Entities) /\ IsFiniteSet(Events)
    /\ Cost \in [{"atom", "page", "raw"} -> Nat]
    /\ Total \in Nat /\ {Ttl, Keep, Limit, PerEntity, MaxEntries} \subseteq Nat \ {0}
    /\ RawPolicies \subseteq {"fallback", "never", "always"}

VARIABLES live, gone, dirty, vec, demoted,   \* the store and its vector index
          active, now, cache, rawPolicy,     \* the thread's stack, the cache
          reader, shown                      \* the recall, and its last answer

recallVars == <<live, gone, dirty, vec, demoted, active, now, cache, rawPolicy, reader, shown>>
storeVars  == <<live, gone, dirty, vec, demoted>>

Never == -1
Snip(layer, id) == [layer |-> layer, id |-> id]
DemotedRaw(policy) == UNION {Evidence[a] : a \in policy}
DemotedEntities(policy) == {Entity[a] : a \in policy}

Init == /\ live = {} /\ gone = [a \in Atoms |-> Never] /\ dirty = Entities
        /\ vec = {} /\ demoted = {}
        /\ active = [e \in Entities |-> Never] /\ now = 0 /\ cache = {}
        /\ rawPolicy \in RawPolicies
        /\ reader = [at |-> "idle"] /\ shown = [q |-> "none"]
----------------------------------------------------------------------------
(* The other callers. *)
Retract(a) == /\ live' = live \ {a} /\ gone' = [gone EXCEPT ![a] = now]

Indexed(a) == IF Vector THEN {vec, vec \cup {a}} ELSE {vec}    \* best effort

Promote(a) == /\ a \notin live /\ gone[a] = Never
              /\ live' = live \cup {a} /\ dirty' = dirty \cup {Entity[a]}
              /\ vec' \in Indexed(a)
              /\ UNCHANGED <<gone, demoted, active, now, cache, rawPolicy, reader, shown>>

(* deprecate_atom leaves the vector where it is.                            *)
Deprecate(a) == /\ a \in live /\ Retract(a) /\ dirty' = dirty \cup {Entity[a]}
                /\ UNCHANGED <<vec, demoted, active, now, cache, rawPolicy, reader, shown>>

(* Only supersession drops a vector, when the index is reachable.           *)
Supersede(a, b) == /\ a \in live /\ b \notin live /\ gone[b] = Never
                   /\ live' = (live \ {a}) \cup {b} /\ gone' = [gone EXCEPT ![a] = now]
                   /\ dirty' = dirty \cup {Entity[a], Entity[b]}
                   /\ \E v \in Indexed(b) : vec' \in {v, v \ {a}}
                   /\ UNCHANGED <<demoted, active, now, cache, rawPolicy, reader, shown>>

(* The review found that a manual document contradicts the atom: retracted, *)
(* and its evidence enters the recall policy, in one transaction.           *)
Demote(a) == /\ a \in live /\ Retract(a) /\ dirty' = dirty \cup {Entity[a]}
             /\ demoted' = demoted \cup {a}
             /\ UNCHANGED <<vec, active, now, cache, rawPolicy, reader, shown>>

Regenerate(e) == /\ e \in dirty /\ \E a \in live : Entity[a] = e
                 /\ dirty' = dirty \ {e}
                 /\ UNCHANGED <<live, gone, vec, demoted, active, now, cache, rawPolicy, reader, shown>>

Tick == /\ now < MaxTime /\ reader.at = "idle" /\ now' = now + 1
        /\ UNCHANGED <<storeVars, active, cache, rawPolicy, reader, shown>>
----------------------------------------------------------------------------
(* The thread's stack of active entities. *)
Newest(stack) == {e \in Entities : stack[e] # Never /\ \A f \in Entities : stack[f] <= stack[e]}

(* upsert_active_entity for each, then all but the Keep newest are evicted. *)
Pushed(es) ==
    LET stack == [e \in Entities |-> IF e \in es THEN now ELSE active[e]]
        Held == {K \in SUBSET {e \in Entities : stack[e] # Never} :
                   /\ Cardinality(K) <= Keep
                   /\ \A e \in K, f \in Entities \ K : stack[f] <= stack[e]
                   /\ Cardinality(K) < Keep => \A f \in Entities \ K : stack[f] = Never}
    IN {[e \in Entities |-> IF e \in K THEN stack[e] ELSE Never] : K \in Held}
----------------------------------------------------------------------------
(* The cache. *)
KeyByQuery(q) == <<q, {}>>
Key(q) == <<q, demoted>>       \* the query and the manual-document policy

HitForever(q) == {h \in cache : h.key = Key(q)}
Hit(q) == {h \in cache : h.key = Key(q) /\ h.expires > now}

Put(key, value) ==
    LET all == {h \in cache : h.key # key} \cup {[key |-> key, value |-> value, expires |-> now + Ttl]}
        Over == Cardinality(all) - MaxEntries
    IN IF Over <= 0 THEN {all}
       ELSE {all \ D : D \in {S \in SUBSET all : /\ Cardinality(S) = Over
                                                 /\ \A h \in S, g \in all \ S : h.expires <= g.expires}}

Answer(q, about, snippets, began, top) ==
    /\ shown' = [q |-> q, about |-> about, snippets |-> snippets,
                 began |-> began, top |-> top, at |-> now]
    /\ reader' = [at |-> "idle"]

(* A cached answer is returned before anything is resolved or pushed.       *)
Ask(q) ==
    /\ reader.at = "idle"
    /\ \/ \E h \in Hit(q) : /\ Answer(q, h.value.about, h.value.snippets, demoted, Newest(active))
                            /\ UNCHANGED cache
       \/ /\ Hit(q) = {}
          /\ cache' = {h \in cache : h.key # Key(q)}
          /\ reader' = [at |-> "route", q |-> q, key |-> Key(q), began |-> demoted, top |-> Newest(active)]
          /\ UNCHANGED shown
    /\ UNCHANGED <<storeVars, active, now, rawPolicy>>

(* Names first; the stack is consulted only when no name resolved.          *)
Anchors(q) == IF Named[q] # {} THEN {Named[q]}
              ELSE IF Pronoun[q] /\ Newest(active) # {} THEN {{e} : e \in Newest(active)}
              ELSE {{}}

Route ==
    /\ reader.at = "route"
    /\ \E about \in Anchors(reader.q) :
         /\ active' \in IF about = {} THEN {active} ELSE Pushed(about)
         /\ reader' = [at |-> "atom", q |-> reader.q, key |-> reader.key, began |-> reader.began,
                       top |-> reader.top, about |-> about, seen |-> DemotedRaw(demoted), out |-> {}]
    /\ UNCHANGED <<storeVars, now, cache, rawPolicy, shown>>
----------------------------------------------------------------------------
(* The sources, each a read of its own under a deadline: a source that      *)
(* times out or fails adds nothing.                                         *)
Source == <<"atom", "page", "raw", "vector">>
After(source) == IF source = "vector" THEN "rank"
                 ELSE Source[1 + CHOOSE i \in 1 .. 3 : Source[i] = source]

EntityOf(c) == IF c.layer = "atom" THEN {Entity[c.id]} ELSE IF c.layer = "page" THEN {c.id} ELSE {}
AtomsIn(out) == {c.id : c \in {d \in out : d.layer = "atom"}}

FoundAtoms == {a \in live : a \in Found[reader.q] \/ Entity[a] \in reader.about}
FreshPages == {e \in reader.about \ dirty : \A c \in reader.out : e \notin EntityOf(c)}
FoundRaw   == (Events \cap Found[reader.q]) \ reader.seen
NearAtoms  == vec \ AtomsIn(reader.out)       \* get_atom: retracted ones too

Candidates(source) ==
    CASE source = "atom"   -> {Snip("atom", a) : a \in FoundAtoms}
      [] source = "page"   -> {Snip("page", e) : e \in FreshPages}
      [] source = "raw"    -> {Snip("raw", e) : e \in FoundRaw}
      [] source = "vector" -> {Snip("atom", a) : a \in NearAtoms}

Gather(source) ==
    /\ reader.at = source
    /\ \E found \in {{}, Candidates(source)} :
         reader' = [reader EXCEPT !.at = After(source), !.out = @ \cup found,
                                  !.seen = @ \cup DemotedRaw(AtomsIn(found))]
    /\ UNCHANGED <<storeVars, active, now, cache, rawPolicy, shown>>
----------------------------------------------------------------------------
(* From candidates to a prompt. *)
PromptRawKept(out) ==
    {c \in out : c.layer = "raw" => rawPolicy # "never" /\ c.id \notin Current}
PromptRaw(out) ==
    LET durable == \E c \in out : c.layer # "raw"
        Dropped == rawPolicy = "never" \/ (rawPolicy = "fallback" /\ durable)
    IN {c \in out : c.layer = "raw" => ~Dropped /\ c.id \notin Current}

(* rank[c] is the place of c in the ranked list.                            *)
Before(c, among, rank) == {d \in among : rank[d] < rank[c]}

Diversified(out, rank) ==
    {c \in out : \/ c.layer = "raw"
                 \/ Cardinality({d \in Before(c, out, rank) : EntityOf(d) = EntityOf(c)}) < PerEntity}

(* One list is the result: who is in it depends on those that were before.  *)
Distinct(from, rank) ==
    {kept \in SUBSET from :
        \A c \in from : c \in kept <=> \A d \in Before(c, kept, rank) : ~Similar(d, c)}

(* try_charge: a bucket's own cap, and a total in which atoms and raw events *)
(* share one slice.                                                         *)
Cap == [atom |-> (7 * Total) \div 10, page |-> Total \div 10, raw |-> (7 * Total) \div 10]
Spent(kept, layer) == Cost[layer] * Cardinality({c \in kept : c.layer = layer})
Used(kept) == (IF Spent(kept, "atom") > Spent(kept, "raw") THEN Spent(kept, "atom")
               ELSE Spent(kept, "raw")) + Spent(kept, "page")
Fits(kept, c) == /\ Spent(kept, c.layer) + Cost[c.layer] <= Cap[c.layer]
                 /\ Used(kept) + Cost[c.layer] <= Total
Charged(from, rank) ==
    {kept \in SUBSET from :
        \A c \in from : c \in kept <=> /\ Cardinality(Before(c, kept, rank)) < Limit
                                       /\ Fits(Before(c, kept, rank), c)}

Prompts(out, rank) == UNION {Charged(from, rank) : from \in Distinct(Diversified(out, rank), rank)}

(* The prompt's entities are pushed; an empty prompt is not cached.         *)
Rank ==
    /\ reader.at = "rank"
    /\ LET out == PromptRaw(reader.out)
       IN \E rank \in Injection(out, 1 .. Cardinality(out)) : \E kept \in Prompts(out, rank) :
            LET hits == UNION {EntityOf(c) : c \in kept}
            IN /\ Answer(reader.q, reader.about, kept, reader.began, reader.top)
               /\ active' \in IF hits = {} THEN {active} ELSE Pushed(hits)
               /\ cache' \in IF kept = {} THEN {cache}
                             ELSE Put(reader.key, [about |-> reader.about, snippets |-> kept])
    /\ UNCHANGED <<storeVars, now, rawPolicy>>

Next == \/ \E a \in Atoms : Promote(a) \/ Deprecate(a) \/ Demote(a)
        \/ \E a, b \in Atoms : Supersede(a, b)
        \/ \E e \in Entities : Regenerate(e)
        \/ \E q \in Queries : Ask(q)
        \/ Route \/ \E i \in 1 .. 4 : Gather(Source[i])
        \/ Rank \/ Tick

Spec == Init /\ [][Next]_recallVars
----------------------------------------------------------------------------
Answered == shown.q # "none"
ShownAtoms == AtomsIn(shown.snippets)
ShownRaw == {c.id : c \in {d \in shown.snippets : d.layer = "raw"}}

(* Evidence of an atom that a manual document refuted is never shown to a   *)
(* recall that began after the review: not from the store, where the raw    *)
(* event stays searchable, and not from the cache.                          *)
DemotedStaysOut == Answered => ShownRaw \cap DemotedRaw(shown.began) = {}

(* A retracted atom is gone from every answer one TTL after its retraction, *)
(* the answers given from the cache included, unless its vector was left    *)
(* behind (deprecate_atom never drops one).                                 *)
StaleIsBrief == Answered =>
    \A a \in ShownAtoms \ vec : gone[a] # Never => shown.at - gone[a] < Ttl

(* Unless raw events are mixed in on request, a prompt costs no more than   *)
(* its budget: although atoms and raw events are each allowed seven tenths, *)
(* the fallback filter never lets both into one prompt.                     *)
BudgetHolds == Answered /\ rawPolicy # "always" =>
    Spent(shown.snippets, "atom") + Spent(shown.snippets, "page") + Spent(shown.snippets, "raw")
        <= Total

(* A question that only says "that project" is about the entity on top of   *)
(* the thread's stack when it is asked (pipeline/recall/thread_state.py:18).*)
PronounIsCurrent == Answered => (Pronoun[shown.q] /\ Named[shown.q] = {} /\ shown.top # {} =>
                        \E e \in shown.top : shown.about = {e})
============================================================================
