---------------------------- MODULE Checkpoints ----------------------------
(***************************************************************************)
(* The checkpoints of one conversation in SQLite.  The graph writes a row  *)
(* per step; a row may leave the messages out, and then they are replayed  *)
(* from the writes along its ancestors.  Pruning seals the newest row (a   *)
(* copy of it that has the messages) and deletes the others.  Large fields *)
(* are kept once, as blobs that rows refer to.                             *)
(*                                                                         *)
(* Ids grow with time.  A message is a number.  Rows of subgraphs are ids  *)
(* of their own.  The graph and its saver are external, as the code in     *)
(* src uses them.                                                          *)
(***************************************************************************)
EXTENDS Naturals, FiniteSets, FiniteSetsExt

CONSTANTS
    Fields,       \* values of the large field
    MaxId,        \* bound on checkpoints
    MaxMessages,  \* bound
    LiveTraffic   \* whether turns run while old rows are pruned

CheckpointsAssumption == MaxId \in Nat /\ MaxMessages \in Nat

VARIABLES
    cps,        \* rows of the conversation by id: parent, inline, msgs, answered,
                \* field, ref
    cwrites,    \* cwrites[id]: messages written at that row
    subs,       \* ids of rows of subgraphs
    blobs,
    lastId,
    turn,       \* pc: "idle", "running" or "paused"; the row it started from
    said,       \* history: every message written
    lost,       \* history: rows were deleted above a newest row that leaves its
                \* messages out and could not be read
    pruner      \* pc; the row it read, its messages and whether they end on an
                \* answer; whether it could not be read; victims; whether the
                \* subgraphs may go

cpVars == <<cps, cwrites, subs, blobs, lastId, turn, said, lost, pruner>>

None == 0
Ids == 1..MaxId
AtRest == [pc |-> "rest", victims |-> {}, drop |-> FALSE,
           row |-> None, msgs |-> {}, answered |-> FALSE, unread |-> FALSE]

Init ==
    /\ cps = [id \in {} |-> 0]
    /\ cwrites = [id \in Ids |-> {}]
    /\ subs = {} /\ blobs = {} /\ lastId = 0
    /\ turn = [pc |-> "idle", from |-> None]
    /\ said = {} /\ lost = FALSE
    /\ pruner = AtRest

Latest == IF DOMAIN cps = {} THEN None ELSE Max(DOMAIN cps)

(* What a walk from the roots meets, where up[c] is where it goes from c.  *)
Reached(universe, roots, up) ==
    LET closed == {C \in SUBSET universe : roots \subseteq C /\ \A c \in C : up[c] \subseteq C}
    IN  {x \in universe : \A C \in closed : x \in C}

(* Messages of a row: its own, or what was written along its ancestors, up *)
(* to the first that has its own.                                          *)
Replay(rows, writes, id) ==
    LET parents == [c \in DOMAIN rows |->
                      IF rows[c].inline THEN {} ELSE {rows[c].parent} \cap DOMAIN rows]
        found(c) == IF rows[c].inline THEN rows[c].msgs
                    ELSE UNION {writes[p] : p \in parents[c]}
    IN  IF rows[id].inline THEN rows[id].msgs
        ELSE UNION {found(c) : c \in Reached(DOMAIN rows, {id}, parents)}

(* All that a reader of the row makes of the conversation.                 *)
Known(id) == Replay(cps, cwrites, id) \cup cwrites[id]

With(id, row) == [c \in DOMAIN cps \cup {id} |-> IF c = id THEN row ELSE cps[c]]
Without(ids) == [c \in DOMAIN cps \ ids |-> cps[c]]
WithoutWrites(ids) == [c \in Ids |-> IF c \in ids THEN {} ELSE cwrites[c]]
NewMessage == Cardinality(said) + 1

-----------------------------------------------------------------------------
(* The graph.  A row and the blobs it refers to are written together.      *)

Quiet == LiveTraffic \/ pruner.pc = "rest"

(* The first row, or what the user says, written at the newest row.        *)
StartThread(f) ==
    /\ Latest = None /\ turn.pc = "idle" /\ Quiet /\ lastId < MaxId
    /\ lastId' = lastId + 1
    /\ cps' = With(lastId + 1, [parent |-> None, inline |-> TRUE, msgs |-> {},
                                answered |-> FALSE, field |-> f, ref |-> FALSE])
    /\ UNCHANGED <<cwrites, subs, blobs, turn, said, lost, pruner>>

Ask ==
    /\ turn.pc = "idle" /\ Latest # None /\ Quiet /\ NewMessage < MaxMessages
    /\ turn' = [pc |-> "running", from |-> Latest]
    /\ cwrites' = [cwrites EXCEPT ![Latest] = @ \cup {NewMessage}]
    /\ said' = said \cup {NewMessage}
    /\ UNCHANGED <<cps, subs, blobs, lastId, lost, pruner>>

SubgraphStep ==
    /\ turn.pc = "running" /\ lastId < MaxId
    /\ lastId' = lastId + 1 /\ subs' = subs \cup {lastId + 1}
    /\ UNCHANGED <<cps, cwrites, blobs, turn, said, lost, pruner>>

(* Defect: the blob is taken to be there when any row refers to it.        *)
PutReferring(f, compact, inline, pause) ==
    LET id == lastId + 1
    IN  /\ turn.pc = "running" /\ lastId < MaxId /\ NewMessage <= MaxMessages
        /\ lastId' = id
        /\ cwrites' = [cwrites EXCEPT ![turn.from] = @ \cup {NewMessage}]
        /\ said' = said \cup {NewMessage}
        /\ cps' = With(id, [parent |-> turn.from, inline |-> inline,
                            msgs |-> IF inline THEN Known(turn.from) \cup {NewMessage} ELSE {},
                            answered |-> ~pause, field |-> f, ref |-> compact])
        /\ blobs' = IF compact /\ \A c \in DOMAIN cps : cps[c].field # f
                    THEN blobs \cup {f} ELSE blobs
        /\ turn' = [pc |-> IF pause THEN "paused" ELSE "idle", from |-> None]
        /\ UNCHANGED <<subs, lost, pruner>>

(* A message of the model, and the row after it: the answer, or a call of  *)
(* a tool or an interrupt, on which the turn pauses for the user.          *)
Put(f, compact, inline, pause) ==
    LET id == lastId + 1
    IN  /\ turn.pc = "running" /\ lastId < MaxId /\ NewMessage <= MaxMessages
        /\ lastId' = id
        /\ cwrites' = [cwrites EXCEPT ![turn.from] = @ \cup {NewMessage}]
        /\ said' = said \cup {NewMessage}
        /\ cps' = With(id, [parent |-> turn.from, inline |-> inline,
                            msgs |-> IF inline THEN Known(turn.from) \cup {NewMessage} ELSE {},
                            answered |-> ~pause, field |-> f, ref |-> compact])
        /\ blobs' = IF compact THEN blobs \cup {f} ELSE blobs
        /\ turn' = [pc |-> IF pause THEN "paused" ELSE "idle", from |-> None]
        /\ UNCHANGED <<subs, lost, pruner>>

Resume ==
    /\ turn.pc = "paused" /\ Quiet /\ Latest # None
    /\ turn' = [pc |-> "running", from |-> Latest]
    /\ UNCHANGED <<cps, cwrites, subs, blobs, lastId, said, lost, pruner>>

DeleteThread ==
    /\ turn.pc = "idle" /\ Latest # None /\ Quiet
    /\ cps' = Without(DOMAIN cps) /\ subs' = {}
    /\ cwrites' = [id \in Ids |-> {}] /\ said' = {} /\ lost' = FALSE
    /\ UNCHANGED <<blobs, lastId, turn, pruner>>

-----------------------------------------------------------------------------
(* prune_checkpoints: read the newest row, seal it, choose the victims and *)
(* delete them, then look whether the subgraphs may go.                    *)

PruneAllowed == LiveTraffic \/ turn.pc # "running"

(* What waits at the row to be taken up is what the user said.             *)
ReadNewest ==
    /\ pruner.pc = "rest" /\ PruneAllowed /\ DOMAIN cps # {}
    /\ pruner' = IF cps[Latest].inline THEN [AtRest EXCEPT !.pc = "choose"]
                 ELSE IF Known(Latest) = {} THEN [AtRest EXCEPT !.pc = "check"]
                 ELSE [AtRest EXCEPT !.pc = "seal", !.row = Latest, !.msgs = Known(Latest),
                         !.answered = cps[Latest].answered /\ cwrites[Latest] = {}]
    /\ UNCHANGED <<cps, cwrites, subs, blobs, lastId, turn, said, lost>>

(* The newest row cannot be read (the file is locked, the row does not     *)
(* decode): the ancestors go all the same.                                 *)
ReadFails ==
    /\ pruner.pc = "rest" /\ PruneAllowed /\ DOMAIN cps # {}
    /\ pruner' = [AtRest EXCEPT !.pc = "choose", !.unread = ~cps[Latest].inline]
    /\ UNCHANGED <<cps, cwrites, subs, blobs, lastId, turn, said, lost>>

(* The copy is a root.                                                     *)
Seal ==
    /\ pruner.pc = "seal" /\ lastId < MaxId /\ pruner.row \in DOMAIN cps
    /\ lastId' = lastId + 1
    /\ LET row == cps[pruner.row]
       IN  /\ cps' = With(lastId + 1, [row EXCEPT !.parent = None, !.inline = TRUE,
                                 !.msgs = pruner.msgs, !.answered = pruner.answered, !.ref = TRUE])
           /\ blobs' = blobs \cup {row.field}
    /\ pruner' = [AtRest EXCEPT !.pc = "choose"]
    /\ UNCHANGED <<cwrites, subs, turn, said, lost>>

(* Defect: the ancestors go although the seal was not written.             *)
SealFailsUnnoticed ==
    /\ pruner.pc = "seal"
    /\ pruner' = [AtRest EXCEPT !.pc = "choose"]
    /\ UNCHANGED <<cps, cwrites, subs, blobs, lastId, turn, said, lost>>

(* The rows stay; the subgraphs are looked at all the same.                *)
SealFails ==
    /\ pruner.pc = "seal"
    /\ pruner' = [AtRest EXCEPT !.pc = "check"]
    /\ UNCHANGED <<cps, cwrites, subs, blobs, lastId, turn, said, lost>>

ChooseVictims(keepLast, cutoff) ==
    /\ pruner.pc = "choose"
    /\ LET ids == DOMAIN cps
           newest == {id \in ids : Cardinality({c \in ids : c > id}) < keepLast}
       IN  pruner' = [pruner EXCEPT !.pc = "delete",
                        !.victims = {id \in ids \ newest : id < cutoff}]
    /\ UNCHANGED <<cps, cwrites, subs, blobs, lastId, turn, said, lost>>

DeleteVictims ==
    /\ pruner.pc = "delete"
    /\ cps' = Without(pruner.victims)
    /\ cwrites' = WithoutWrites(pruner.victims)
    /\ lost' = (lost \/ (pruner.unread /\ pruner.victims # {}))
    /\ pruner' = [AtRest EXCEPT !.pc = "check"]
    /\ UNCHANGED <<subs, blobs, lastId, turn, said>>

(* The newest row ends on an answer: not on what the user said, a call of  *)
(* a tool or an interrupt.  One that leaves its messages out shows none.   *)
TurnFinished ==
    /\ Latest # None /\ cps[Latest].inline /\ cps[Latest].msgs # {}
    /\ cps[Latest].answered

(* Defect: a turn counts as finished when no subgraph is ahead of it.      *)
CheckAheadOnly ==
    /\ pruner.pc = "check"
    /\ pruner' = [AtRest EXCEPT !.pc = "drop", !.drop = \A s \in subs : s < Latest]
    /\ UNCHANGED <<cps, cwrites, subs, blobs, lastId, turn, said, lost>>

(* Subgraphs stay when the newest row cannot be read.                      *)
CheckSubgraphs ==
    /\ pruner.pc = "check"
    /\ \E drop \in {FALSE, TurnFinished /\ \A s \in subs : s < Latest} :
          pruner' = [AtRest EXCEPT !.pc = "drop", !.drop = drop]
    /\ UNCHANGED <<cps, cwrites, subs, blobs, lastId, turn, said, lost>>

(* Subgraphs that stay lose all but their newest row.                      *)
DropSubgraphs ==
    /\ pruner.pc = "drop"
    /\ subs' = IF pruner.drop \/ subs = {} THEN {} ELSE {Max(subs)}
    /\ pruner' = AtRest
    /\ UNCHANGED <<cps, cwrites, blobs, lastId, turn, said, lost>>

(* The job dies, or an error ends it: what it has committed stays.         *)
PruneDies ==
    /\ pruner.pc # "rest" /\ pruner' = AtRest
    /\ UNCHANGED <<cps, cwrites, subs, blobs, lastId, turn, said, lost>>

-----------------------------------------------------------------------------
(* Jobs for which all users of the file have stopped.                      *)

Offline == turn.pc # "running" /\ pruner.pc = "rest"

(* A batch of rows rewritten, with its blobs: to references, or back.      *)
Migrate(ids, expand) ==
    /\ Offline /\ ids # {} /\ \E id \in ids : cps[id].ref = expand
    /\ cps' = [id \in DOMAIN cps |->
                 IF id \in ids THEN [cps[id] EXCEPT !.ref = ~expand] ELSE cps[id]]
    /\ blobs' = IF expand THEN blobs ELSE blobs \cup {cps[id].field : id \in ids}
    /\ UNCHANGED <<cwrites, subs, lastId, turn, said, lost, pruner>>

(* Rows that hold all there is to know: the walk of ancestors ends there.  *)
FullSeed(id) == cps[id].inline /\ cwrites[id] = {}

(* Defect: only the parents of the rows that are kept.                     *)
DependenciesDirect(ids) ==
    ids \cup {cps[id].parent : id \in {c \in ids \cap DOMAIN cps : ~FullSeed(c)}}

Dependencies(ids) ==
    LET named == DOMAIN cps \cup {cps[id].parent : id \in DOMAIN cps}
    IN  Reached(named, ids,
                [c \in named |-> IF c \in DOMAIN cps /\ ~FullSeed(c) THEN {cps[c].parent} ELSE {}])

(* prune_completed_threads: the newest rows, rows that others name, and    *)
(* all they depend on.  Anything unproved leaves the thread as it is.  The *)
(* caller says that the thread is completed.                               *)
PruneCompleted(keepLast, protected) ==
    LET ids == DOMAIN cps
        newest == {id \in ids : Cardinality({c \in ids : c > id}) < keepLast}
        keep == Dependencies(newest \cup protected)
        victims == ids \ keep
    IN  /\ Offline /\ ids # {} /\ subs = {}
        /\ turn.pc = "idle" /\ cwrites[Latest] = {}
        /\ keep \subseteq ids /\ victims # {}
        /\ cps' = [id \in keep |->
                     IF FullSeed(id) /\ cps[id].parent \in victims
                     THEN [cps[id] EXCEPT !.parent = None] ELSE cps[id]]
        /\ cwrites' = WithoutWrites(victims)
        /\ UNCHANGED <<subs, blobs, lastId, turn, said, lost, pruner>>

CollectBlobs ==
    /\ Offline
    /\ blobs' = blobs \cap {cps[id].field : id \in {c \in DOMAIN cps : cps[c].ref}}
    /\ blobs' # blobs
    /\ UNCHANGED <<cps, cwrites, subs, lastId, turn, said, lost, pruner>>

Next ==
    \/ \E f \in Fields : StartThread(f)
    \/ Ask \/ SubgraphStep \/ Resume \/ DeleteThread
    \/ \E f \in Fields, compact, inline, pause \in BOOLEAN : Put(f, compact, inline, pause)
    \/ ReadNewest \/ ReadFails \/ Seal \/ SealFails \/ CheckSubgraphs \/ DropSubgraphs
    \/ DeleteVictims \/ PruneDies
    \/ \E keepLast \in 1..2, cutoff \in {MaxId + 1, lastId} : ChooseVictims(keepLast, cutoff)
    \/ \E ids \in SUBSET DOMAIN cps, expand \in BOOLEAN : Migrate(ids, expand)
    \/ \E keepLast \in 1..2, protected \in SUBSET DOMAIN cps : PruneCompleted(keepLast, protected)
    \/ CollectBlobs

Spec == Init /\ [][Next]_cpVars

-----------------------------------------------------------------------------
(* Properties.                                                             *)

(* Whatever was pruned, sealed or rewritten, between turns the newest row  *)
(* yields the whole conversation, with what is written at it, unless rows  *)
(* were deleted above a newest row that could not be read.                 *)
TranscriptKept == Latest # None /\ turn.pc # "running" /\ ~lost => Known(Latest) = said

(* The same without the exception, as the prune's documentation has it:    *)
(* the newest row gets its messages before its ancestors go.  ReadFails    *)
(* breaks it.                                                              *)
ConversationOutlivesPrune == Latest # None /\ turn.pc # "running" => Known(Latest) = said

(* Every row can be read: its blob is there.                               *)
EveryRowDecodes == \A id \in DOMAIN cps : cps[id].ref => cps[id].field \in blobs

(* The subgraphs of a turn that runs or waits for the user stay (but for   *)
(* older rows of a stream).                                                *)
UnfinishedKeepsSubgraphs ==
    [][turn.pc # "idle" /\ subs # {} => subs' # {}]_cpVars

(* The offline job changes no row's messages: a row that stays still has   *)
(* what it depends on, however old the rows that others name.              *)
RetainedRowsReplay ==
    [][Offline /\ turn' = turn /\ pruner' = pruner =>
         \A id \in DOMAIN cps' \cap DOMAIN cps :
             Replay(cps', cwrites', id) = Replay(cps, cwrites, id)]_cpVars

=============================================================================
