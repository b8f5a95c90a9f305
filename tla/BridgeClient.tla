---------------------------- MODULE BridgeClient ----------------------------
(***************************************************************************)
(* The OpenClaw plugin and the bridge process it talks to.  Tools, hooks   *)
(* and commands of one plugin get the bridge from one factory, which       *)
(* spawns a process at the first need, and keeps it.  The process answers  *)
(* one line at a time.  It may die: its exit is an event that reaches the  *)
(* plugin later, before or after the last lines it printed.                *)
(*                                                                         *)
(* The factory makes a client for each process it spawns, so a client is   *)
(* the number of its process.  An event handler of the plugin, and the     *)
(* promises it settles, are one step.                                      *)
(***************************************************************************)
EXTENDS Naturals, Sequences, SequencesExt, FiniteSets

CONSTANTS
    Users,      \* tools, hooks and commands, each with a call at a time
    MaxSpawns,  \* bound on processes
    MaxCalls    \* bound on the calls of a user

VARIABLES
    proc,       \* proc[i]: "none", "up", "killed" (told to end) or "dead"
    exited,     \* the processes whose exit event was handled
    inbox,      \* inbox[i]: lines on the way to the process
    outbox,     \* outbox[i]: lines on the way back
    cached,     \* the client that started, or 0
    starting,   \* the client whose start is pending, or 0
    user        \* user[u]: pc; the client and number of its call; whether the
                \* line could still be written

bridgeVars == <<proc, exited, inbox, outbox, cached, starting, user>>

Clients == 1..MaxSpawns
Handshake == [from |-> "start", n |-> 0]
Request(u) == [from |-> u, n |-> user[u].n]

Init ==
    /\ proc = [i \in Clients |-> "none"] /\ exited = {}
    /\ inbox = [i \in Clients |-> <<>>] /\ outbox = [i \in Clients |-> <<>>]
    /\ cached = 0 /\ starting = 0
    /\ user = [u \in Users |-> [pc |-> "idle", at |-> 0, n |-> 0, written |-> TRUE]]

Alive(i) == proc[i] \in {"up", "killed"}
Waiting == {u \in Users : user[u].pc = "waits"}
Pending(i) == {u \in Users : user[u].pc = "sent" /\ user[u].at = i}

(* The calls of W settle, with a result or an error.                       *)
Settled(W) == [u \in Users |-> IF u \in W THEN [user[u] EXCEPT !.pc = "idle"] ELSE user[u]]

-----------------------------------------------------------------------------
(* The plugin: getBridge, and a call with the client it returns.           *)

Begins(u) ==
    /\ user[u].pc = "idle" /\ user[u].n < MaxCalls

(* start() of a client that started once returns the promise of that time. *)
CallCached(u) ==
    /\ Begins(u) /\ cached # 0
    /\ LET mine == [pc |-> "sent", at |-> cached, n |-> user[u].n + 1, written |-> Alive(cached)]
       IN  /\ user' = [user EXCEPT ![u] = mine]
           /\ inbox' = IF mine.written
                       THEN [inbox EXCEPT ![cached] = Append(@, [from |-> u, n |-> mine.n])]
                       ELSE inbox
    /\ UNCHANGED <<proc, exited, outbox, cached, starting>>

Waits(u) == user' = [user EXCEPT ![u].pc = "waits", ![u].n = @ + 1]

JoinStart(u) ==
    /\ Begins(u) /\ cached = 0 /\ starting # 0
    /\ Waits(u)
    /\ UNCHANGED <<proc, exited, inbox, outbox, cached, starting>>

SpawnFor(u, i) ==
    /\ proc[i] = "none" /\ \A j \in Clients : j < i => proc[j] # "none"
    /\ proc' = [proc EXCEPT ![i] = "up"]
    /\ inbox' = [inbox EXCEPT ![i] = <<Handshake>>]
    /\ starting' = i
    /\ Waits(u)
    /\ UNCHANGED <<exited, outbox, cached>>

(* Defect: a caller does not look for a start that is under way.           *)
StartAnyway(u, i) == Begins(u) /\ cached = 0 /\ SpawnFor(u, i)
Start(u, i) == Begins(u) /\ cached = 0 /\ starting = 0 /\ SpawnFor(u, i)

(* The process is told to end; the next caller makes a new client.         *)
StartFails ==
    /\ starting # 0 /\ starting' = 0
    /\ proc' = [proc EXCEPT ![starting] = IF @ = "up" THEN "killed" ELSE @]
    /\ user' = Settled(Waiting)
    /\ UNCHANGED <<exited, inbox, outbox, cached>>

(* An answer to the handshake lets all who wait make their call; one that  *)
(* nobody waits for is dropped.                                            *)
HandleLine(i) ==
    /\ outbox[i] # <<>>
    /\ outbox' = [outbox EXCEPT ![i] = Tail(@)]
    /\ LET line == Head(outbox[i])
       IN  IF line = Handshake /\ starting = i
           THEN /\ cached' = i /\ starting' = 0
                /\ user' = [u \in Users |-> IF u \in Waiting
                              THEN [user[u] EXCEPT !.pc = "sent", !.at = i, !.written = Alive(i)]
                              ELSE user[u]]
                /\ inbox' = IF Alive(i)
                            THEN [inbox EXCEPT ![i] = @ \o SetToSeq({Request(u) : u \in Waiting})]
                            ELSE inbox
           ELSE /\ user' = Settled({u \in Pending(i) : Request(u) = line})
                /\ UNCHANGED <<cached, starting, inbox>>
    /\ UNCHANGED <<proc, exited>>

(* Defect: the exit is noted, and the calls that wait are not rejected.    *)
ExitUnheard(i) ==
    /\ proc[i] = "dead" /\ i \notin exited
    /\ exited' = exited \cup {i}
    /\ UNCHANGED <<proc, inbox, outbox, cached, starting, user>>

(* The exit, or the end of the output if that is seen first: all pending   *)
(* calls of the client are rejected, the handshake with them.              *)
HandleExit(i) ==
    /\ proc[i] = "dead" /\ i \notin exited
    /\ exited' = exited \cup {i}
    /\ user' = Settled(Pending(i) \cup IF starting = i THEN Waiting ELSE {})
    /\ starting' = IF starting = i THEN 0 ELSE starting
    /\ UNCHANGED <<proc, inbox, outbox, cached>>

(* The callback of a write to a process that is no more.                   *)
WriteFails(u) ==
    /\ user[u].pc = "sent" /\ ~user[u].written
    /\ user' = Settled({u})
    /\ UNCHANGED <<proc, exited, inbox, outbox, cached, starting>>

-----------------------------------------------------------------------------
(* The process: serve, and its end.                                        *)

Serve(i) ==
    /\ Alive(i) /\ inbox[i] # <<>>
    /\ inbox' = [inbox EXCEPT ![i] = Tail(@)]
    /\ outbox' = [outbox EXCEPT ![i] = Append(@, Head(inbox[i]))]
    /\ UNCHANGED <<proc, exited, cached, starting, user>>

Dies(i) ==
    /\ Alive(i)
    /\ proc' = [proc EXCEPT ![i] = "dead"]
    /\ inbox' = [inbox EXCEPT ![i] = <<>>]
    /\ UNCHANGED <<exited, outbox, cached, starting, user>>

Next ==
    \/ \E u \in Users : CallCached(u) \/ JoinStart(u) \/ WriteFails(u)
    \/ \E u \in Users, i \in Clients : Start(u, i)
    \/ StartFails
    \/ \E i \in Clients : HandleLine(i) \/ HandleExit(i) \/ Serve(i) \/ Dies(i)

(* The event loop handles its events, the timer of a start goes off, and a *)
(* process that lives reads its lines.                                     *)
Fairness ==
    /\ WF_bridgeVars(StartFails)
    /\ \A u \in Users : WF_bridgeVars(WriteFails(u))
    /\ \A i \in Clients : /\ WF_bridgeVars(HandleLine(i))
                          /\ WF_bridgeVars(HandleExit(i))
                          /\ WF_bridgeVars(Serve(i))

Spec == Init /\ [][Next]_bridgeVars /\ Fairness

-----------------------------------------------------------------------------
(* Properties.                                                             *)

(* The plugin never keeps two bridges: whoever asks while one starts waits *)
(* for it, and one that failed to start is told to end before the next.    *)
OneBridge == Cardinality({i \in Clients : proc[i] = "up"}) <= 1

(* Every call settles, whatever dies and in whichever order the exit and   *)
(* the last lines arrive.                                                  *)
CallsSettle == \A u \in Users : user[u].pc # "idle" ~> user[u].pc = "idle"

(* A bridge that died is replaced when the next caller comes.  Not so: the *)
(* factory keeps its client, whose start returns the promise of its start. *)
BridgeComesBack == []<>(cached = 0 \/ proc[cached] = "up")

=============================================================================
