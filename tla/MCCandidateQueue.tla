-------------------------- MODULE MCCandidateQueue --------------------------
EXTENDS CandidateQueue

CONSTANTS user, ann

(* A user without a name and by name, who says one thing and denies it; an *)
(* assertion extracted twice; a candidate without evidence.                *)
Draft(s, n, w) ==
    [subject |-> s, says |-> "tea", neg |-> n, user |-> TRUE, worth |-> w]
Scene(c, d, ps, a, k) ==
    [drafts |-> <<c, d>>, procs |-> ps, asks |-> a, crashes |-> k]
One == {CHOOSE p \in Procs : TRUE}
MCScenes ==
    LET tea == Draft(user, FALSE, "fine")
        her == Draft(ann, FALSE, "fine")
        not == Draft(ann, TRUE, "fine")
        none == Draft(Nobody, FALSE, "unproven")
        chat == Draft(user, FALSE, "trivial")
    IN  {Scene(tea, not, One, 2, 0), Scene(tea, not, Procs, 1, 0),
         Scene(her, her, Procs, 0, 0), Scene(none, chat, One, 1, 0),
         Scene(tea, none, One, 0, 1), Scene(none, none, Procs, 0, 1)}

=============================================================================
