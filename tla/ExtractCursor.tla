--------------------------- MODULE ExtractCursor ---------------------------
(***************************************************************************)
(* Which raw events of a session have been extracted (MemoryRuntime in     *)
(* application/runtime.py).  Every turn of the conversation appends raw    *)
(* events and calls extract, which sends the model the events that are not *)
(* in the set of extracted ids.  The set has a durable copy in meta, the   *)
(* cursor, and an object in the memory of each runtime, shared by the      *)
(* calls the host makes from several threads.  Several processes have a    *)
(* runtime on the same store.                                              *)
(*                                                                         *)
(* An action is at most one call of the backend or of the model, with the  *)
(* Python statements after it.  Batches of a prompt, what candidates       *)
(* say, and what follows the commit (promotion, pages, episodes) are left  *)
(* out; so are the limit of 10 000 events in a listing and sessions other  *)
(* than one: they only make a runtime forget this one's set.               *)
(***************************************************************************)
EXTENDS Naturals, Sequences

CONSTANTS
    Events,    \* raw events of the session that may ever be captured
    Runtimes,  \* processes with a MemoryRuntime on the store
    Calls,     \* threads that call extract, one call at a time each
    Home,      \* Home[c]: the runtime that c calls
    MaxDrops   \* bound: how many times a runtime restarts or forgets its set

ASSUME CursorAssumption ==
    Home \in [Calls -> Runtimes] /\ MaxDrops \in Nat

VARIABLES
    raw,        \* the raw events in the store
    extracted,  \* the events whose candidates are in the store (maybe none)
    cursor,     \* the value of meta key extracted_ids/v1/<session>
    objects,    \* the set objects ever created, by identity
    cache,      \* cache[r]: what _extracted_ids of r holds for the session
    call,       \* call[c]: where a call is, and its locals
    drops       \* restarts and evictions so far

vars == <<raw, extracted, cursor, objects, cache, call, drops>>

NoObject == 0

ObjectIds == DOMAIN objects

Idle == [pc |-> "idle"]

Goto(c, state) == call' = [call EXCEPT ![c] = state]

Init ==
    /\ raw = {}
    /\ extracted = {}
    /\ cursor = {}
    /\ objects = <<>>
    /\ cache = [r \in Runtimes |-> NoObject]
    /\ call = [c \in Calls |-> Idle]
    /\ drops = 0

-----------------------------------------------------------------------------

(* add_raw_batch of a turn that passed the filters of capture.             *)
Capture(e) ==
    /\ e \notin raw
    /\ raw' = raw \cup {e}
    /\ UNCHANGED <<extracted, cursor, objects, cache, call, drops>>

(* A call lists the raw events of the session.                             *)
List(c, incremental) ==
    /\ call[c].pc = "idle"
    /\ Goto(c, [pc |-> "seen", events |-> raw, incremental |-> incremental])
    /\ UNCHANGED <<raw, extracted, cursor, objects, cache, drops>>

(* new_events, given the set of object o; with none the call returns.      *)
Select(c, o, seen) ==
    LET new == IF call[c].incremental THEN call[c].events \ seen
               ELSE call[c].events
    IN  Goto(c, IF new = {} THEN Idle
                ELSE [pc |-> "model", obj |-> o, new |-> new])

(* _seen_ids_for finds the session in the LRU.                             *)
Hit(c) ==
    LET o == cache[Home[c]]
    IN  /\ call[c].pc = "seen" /\ o # NoObject
        /\ Select(c, o, objects[o])
        /\ UNCHANGED <<raw, extracted, cursor, objects, cache, drops>>

(* It does not, and starts to read meta.                                   *)
Miss(c) ==
    /\ call[c].pc = "seen" /\ cache[Home[c]] = NoObject
    /\ Goto(c, [call[c] EXCEPT !.pc = "load"])
    /\ UNCHANGED <<raw, extracted, cursor, objects, cache, drops>>

(* _load_seen_ids answers with the cursor, or with the empty set when it   *)
(* cannot be read; the object replaces one loaded meanwhile.               *)
Load(c) ==
    /\ call[c].pc = "load"
    /\ \E seen \in {cursor, {}} :
          /\ objects' = Append(objects, seen)
          /\ cache' = [cache EXCEPT ![Home[c]] = Len(objects) + 1]
          /\ Select(c, Len(objects) + 1, seen)
    /\ UNCHANGED <<raw, extracted, cursor, drops>>

(* Mutant: the ids of a failed extraction enter the runtime's set.         *)
ModelFailsMarked(c) ==
    /\ call[c].pc = "model"
    /\ objects' = [objects EXCEPT ![call[c].obj] = @ \cup call[c].new]
    /\ Goto(c, Idle)
    /\ UNCHANGED <<raw, extracted, cursor, cache, drops>>

(* failure_reason: the model failed, or two answers could not be parsed.   *)
ModelFails(c) ==
    /\ call[c].pc = "model"
    /\ Goto(c, Idle)
    /\ UNCHANGED <<raw, extracted, cursor, objects, cache, drops>>

(* Mutant: the cursor is persisted before the candidates are.              *)
ModelAnswersPersisted(c) ==
    LET next == objects[call[c].obj] \cup call[c].new
    IN  /\ call[c].pc = "model"
        /\ cursor' = next
        /\ Goto(c, [pc |-> "commit", obj |-> call[c].obj, new |-> call[c].new,
                    next |-> next])
        /\ UNCHANGED <<raw, extracted, objects, cache, drops>>

(* The model answers, and next_seen is computed from the shared set.       *)
ModelAnswers(c) ==
    /\ call[c].pc = "model"
    /\ Goto(c, [pc |-> "commit", obj |-> call[c].obj, new |-> call[c].new,
                next |-> objects[call[c].obj] \cup call[c].new])
    /\ UNCHANGED <<raw, extracted, cursor, objects, cache, drops>>

(* The transaction that files the candidates and persists the cursor, and  *)
(* then seen.update(next_seen).                                            *)
Commit(c) ==
    /\ call[c].pc = "commit"
    /\ extracted' = extracted \cup call[c].new
    /\ cursor' = call[c].next
    /\ objects' = [objects EXCEPT ![call[c].obj] = @ \cup call[c].next]
    /\ Goto(c, Idle)
    /\ UNCHANGED <<raw, cache, drops>>

(* A candidate or the cursor cannot be written: nothing is.                *)
RollBack(c) ==
    /\ call[c].pc = "commit"
    /\ Goto(c, Idle)
    /\ UNCHANGED <<raw, extracted, cursor, objects, cache, drops>>

(* Calls for 16 other sessions evict this one's set, which the calls that  *)
(* hold it go on using.                                                    *)
Evict(r) ==
    /\ drops < MaxDrops
    /\ cache[r] # NoObject
    /\ cache' = [cache EXCEPT ![r] = NoObject]
    /\ drops' = drops + 1
    /\ UNCHANGED <<raw, extracted, cursor, objects, call>>

(* The process of r dies and comes back.                                   *)
Restart(r) ==
    /\ drops < MaxDrops
    /\ cache' = [cache EXCEPT ![r] = NoObject]
    /\ call' = [c \in Calls |-> IF Home[c] = r THEN Idle ELSE call[c]]
    /\ drops' = drops + 1
    /\ UNCHANGED <<raw, extracted, cursor, objects>>

CallStep(c) ==
    \/ \E incremental \in BOOLEAN : List(c, incremental)
    \/ Hit(c) \/ Miss(c) \/ Load(c)
    \/ ModelFails(c) \/ ModelAnswers(c)
    \/ Commit(c) \/ RollBack(c)

Next ==
    \/ \E e \in Events : Capture(e)
    \/ \E c \in Calls : CallStep(c)
    \/ \E r \in Runtimes : Evict(r) \/ Restart(r)

(* Hosts keep calling extract and a call goes on; the model that is asked  *)
(* again and again answers at last, and the store takes the answer.        *)
Fairness ==
    \A c \in Calls :
        /\ WF_vars(\E incremental \in BOOLEAN : List(c, incremental))
        /\ WF_vars(Hit(c)) /\ WF_vars(Miss(c)) /\ WF_vars(Load(c))
        /\ WF_vars(ModelFails(c) \/ ModelAnswers(c))
        /\ WF_vars(Commit(c) \/ RollBack(c))
        /\ SF_vars(ModelAnswers(c)) /\ SF_vars(Commit(c))

Spec == Init /\ [][Next]_vars /\ Fairness

-----------------------------------------------------------------------------

(* The states of a call that holds an object of O.                         *)
CallState(O) ==
    [pc : {"idle"}]
    \cup [pc : {"seen", "load"}, events : SUBSET raw, incremental : BOOLEAN]
    \cup [pc : {"model"}, obj : O, new : (SUBSET raw) \ {{}}]
    \cup [pc : {"commit"}, obj : O, new : (SUBSET raw) \ {{}}, next : SUBSET raw]

(* Sets hold events of the store, objects exist, and the model is asked    *)
(* about something.                                                        *)
TypeOK ==
    /\ raw \subseteq Events
    /\ extracted \subseteq raw /\ cursor \subseteq raw
    /\ objects \in Seq(SUBSET raw)
    /\ cache \in [Runtimes -> ObjectIds \cup {NoObject}]
    /\ call \in [Calls -> CallState(ObjectIds)]
    /\ drops \in 0..MaxDrops

(* No event is passed over: whatever fails, restarts or overwrites another *)
(* call's work, an id in the cursor or in the set of a runtime is that of  *)
(* an event whose candidates were filed.                                   *)
NothingIsSkipped ==
    /\ cursor \subseteq extracted
    /\ \A o \in ObjectIds : objects[o] \subseteq extracted

(* "the events are NOT marked extracted, so the next call retries": every  *)
(* captured event is extracted at last.                                    *)
EveryEventIsExtracted ==
    \A e \in Events : e \in raw ~> e \in extracted

=============================================================================
