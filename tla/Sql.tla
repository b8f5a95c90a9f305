-------------------------------- MODULE Sql --------------------------------
(***************************************************************************)
(* What the statements of both backends do to a set of rows.  A row says   *)
(* in `tab' which table it is in.  The engines are external: this is how   *)
(* the backends use them.                                                  *)
(***************************************************************************)
EXTENDS Integers, FiniteSets

None == "none"  \* NULL
Any == "any"    \* a filter that is not given, a column that is not set

Refused(S) == [rows |-> S, out |-> "raised"]

(* INSERT, where Clash says which rows violate a key or UNIQUE.            *)
Insert(S, r, Clash(_)) ==
    IF \E x \in S : Clash(x) THEN Refused(S)
    ELSE [rows |-> S \cup {r}, out |-> "done"]

(* UPDATE and its row count.                                               *)
Update(S, Hit(_), Changed(_)) ==
    [rows |-> {IF Hit(x) THEN Changed(x) ELSE x : x \in S},
     out |-> Cardinality({x \in S : Hit(x)})]

(* INSERT ... ON CONFLICT DO UPDATE.                                       *)
Upsert(S, r, Hit(_), Changed(_)) ==
    [rows |-> IF \E x \in S : Hit(x) THEN Update(S, Hit, Changed).rows
              ELSE S \cup {r},
     out |-> "done"]

Delete(S, Hit(_)) ==
    [rows |-> {x \in S : ~Hit(x)}, out |-> Cardinality({x \in S : Hit(x)})]

(* ORDER BY at DESC LIMIT n, and ASC; rows of one time are not separated.  *)
Latest(S, n) == {x \in S : Cardinality({y \in S : y.at > x.at}) < n}
Earliest(S, n) == {x \in S : Cardinality({y \in S : y.at < x.at}) < n}

Matches(filter, value) == filter = Any \/ filter = value

Within(at, lo, hi) == lo <= at /\ at <= hi

(* Collected level by level: the least set with roots and all their kids.  *)
Reached(ids, roots, Kids(_)) ==
    {x \in ids : \A C \in SUBSET ids :
        roots \subseteq C /\ Kids(C) \subseteq C => x \in C}

=============================================================================
