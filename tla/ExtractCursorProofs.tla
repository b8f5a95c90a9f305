------------------------ MODULE ExtractCursorProofs ------------------------
(***************************************************************************)
(* ExtractCursor skips no event, whatever the events, runtimes, calls and  *)
(* bounds are.                                                             *)
(***************************************************************************)
EXTENDS ExtractCursor, TLAPS

USE DEF NoObject, ObjectIds

(* A call about to commit marks nothing but what was extracted before and  *)
(* what it will have extracted.                                            *)
AnswersAreEarned ==
    \A c \in Calls :
        call[c].pc = "commit" => call[c].next \subseteq extracted \cup call[c].new

Inv == TypeOK /\ NothingIsSkipped /\ AnswersAreEarned

-----------------------------------------------------------------------------

(* The states of a call over a larger store and more objects.              *)
LEMMA CallStateGrows ==
    ASSUME NEW O, NEW P, O \subseteq P, raw \subseteq raw',
           NEW s \in CallState(O)
    PROVE  s \in CallState(P)'
  BY DEF CallState

(* Where a call is: the cases of CallState.                                *)
LEMMA CallCases ==
    ASSUME TypeOK, NEW c \in Calls
    PROVE  /\ call[c].pc \in {"seen", "load"} =>
                call[c].events \subseteq raw /\ call[c].incremental \in BOOLEAN
           /\ call[c].pc = "model" =>
                call[c].obj \in ObjectIds /\ call[c].new \in (SUBSET raw) \ {{}}
           /\ call[c].pc = "commit" =>
                /\ call[c].obj \in ObjectIds
                /\ call[c].new \in (SUBSET raw) \ {{}}
                /\ call[c].next \subseteq raw
  <1>1. call[c] \in CallState(ObjectIds)
    BY DEF TypeOK
  <1>2. QED
    BY <1>1 DEF CallState

(* A call that moves to a state of the right shape leaves the others.       *)
LEMMA CallMoves ==
    ASSUME TypeOK, raw \subseteq raw', ObjectIds \subseteq ObjectIds',
           NEW c \in Calls, NEW s \in CallState(ObjectIds)', Goto(c, s)
    PROVE  call' \in [Calls -> CallState(ObjectIds)']
  <1>1. \A d \in Calls : call[d] \in CallState(ObjectIds)'
    <2> SUFFICES ASSUME NEW d \in Calls
                 PROVE  call[d] \in CallState(ObjectIds)'
      OBVIOUS
    <2>1. call[d] \in CallState(ObjectIds)
      BY DEF TypeOK
    <2>2. QED
      BY <2>1, CallStateGrows
  <1>2. call \in [Calls -> CallState(ObjectIds)]
    BY DEF TypeOK
  <1>3. QED
    BY <1>1, <1>2 DEF Goto

(* So does one that returns.                                               *)
LEMMA CallReturns ==
    ASSUME TypeOK, raw \subseteq raw', ObjectIds \subseteq ObjectIds',
           NEW c \in Calls, Goto(c, Idle)
    PROVE  call' \in [Calls -> CallState(ObjectIds)']
  <1>1. Idle \in CallState(ObjectIds)'
    BY DEF CallState, Idle
  <1>2. QED
    BY <1>1, CallMoves

(* So does one that selects what is new to the set of an object.           *)
LEMMA CallSelects ==
    ASSUME TypeOK, raw' = raw, ObjectIds \subseteq ObjectIds',
           NEW c \in Calls, call[c].pc \in {"seen", "load"},
           NEW o \in ObjectIds', NEW seen, Select(c, o, seen)
    PROVE  call' \in [Calls -> CallState(ObjectIds)']
  <1> DEFINE new == IF call[c].incremental THEN call[c].events \ seen
                    ELSE call[c].events
             s == [pc |-> "model", obj |-> o, new |-> new]
  <1>1. new \subseteq raw
    BY CallCases
  <1>2. CASE new = {}
    <2>1. Goto(c, Idle)
      BY <1>2 DEF Select
    <2>2. QED
      BY <2>1, CallReturns
  <1>3. CASE new # {}
    <2>1. Goto(c, s)
      BY <1>3 DEF Select
    <2>2. s \in CallState(ObjectIds)'
      BY <1>1, <1>3 DEF CallState
    <2>3. QED
      BY <2>1, <2>2, CallMoves
  <1>4. QED
    BY <1>2, <1>3

(* The first state satisfies the invariant.                                *)
LEMMA InitInv == Init => Inv
  <1> SUFFICES ASSUME Init PROVE Inv
    OBVIOUS
  <1>1. TypeOK
    <2>1. Idle \in CallState(ObjectIds)
      BY DEF CallState, Idle
    <2>2. call \in [Calls -> CallState(ObjectIds)]
      BY <2>1 DEF Init
    <2>3. QED
      BY <2>2, CursorAssumption DEF Init, TypeOK
  <1>2. NothingIsSkipped /\ AnswersAreEarned
    BY DEF Init, NothingIsSkipped, AnswersAreEarned, Idle
  <1>3. QED
    BY <1>1, <1>2 DEF Inv

(* Each step keeps the types.                                              *)
LEMMA NextTypeOK == TypeOK /\ [Next]_vars => TypeOK'
  <1> SUFFICES ASSUME TypeOK, [Next]_vars PROVE TypeOK'
    OBVIOUS
  <1> USE CursorAssumption
  <1>1. ASSUME NEW e \in Events, Capture(e) PROVE TypeOK'
    <2>1. raw \subseteq raw' /\ ObjectIds' = ObjectIds
      BY <1>1 DEF Capture
    <2>2. call' \in [Calls -> CallState(ObjectIds)']
      <3>1. \A d \in Calls : call[d] \in CallState(ObjectIds)'
        <4> SUFFICES ASSUME NEW d \in Calls
                     PROVE  call[d] \in CallState(ObjectIds)'
          OBVIOUS
        <4>1. call[d] \in CallState(ObjectIds)
          BY DEF TypeOK
        <4>2. QED
          BY <2>1, <4>1, CallStateGrows
      <3>2. call' = call /\ call \in [Calls -> CallState(ObjectIds)]
        BY <1>1 DEF TypeOK, Capture
      <3>3. QED
        BY <3>1, <3>2
    <2>3. QED
      BY <1>1, <2>1, <2>2 DEF TypeOK, Capture
  <1>2. ASSUME NEW c \in Calls, NEW incremental \in BOOLEAN,
               List(c, incremental)
        PROVE  TypeOK'
    <2> DEFINE s == [pc |-> "seen", events |-> raw, incremental |-> incremental]
    <2>1. s \in CallState(ObjectIds)' /\ Goto(c, s)
      BY <1>2 DEF CallState, List
    <2>2. raw' = raw /\ ObjectIds' = ObjectIds
      BY <1>2 DEF List
    <2>3. call' \in [Calls -> CallState(ObjectIds)']
      BY <2>1, <2>2, CallMoves
    <2>4. QED
      BY <1>2, <2>2, <2>3 DEF TypeOK, List
  <1>3. ASSUME NEW c \in Calls, Hit(c) PROVE TypeOK'
    <2>1. raw' = raw /\ ObjectIds' = ObjectIds /\ cache[Home[c]] \in ObjectIds
      BY <1>3 DEF Hit, TypeOK
    <2>2. call' \in [Calls -> CallState(ObjectIds)']
      BY <1>3, <2>1, CallSelects DEF Hit
    <2>3. QED
      BY <1>3, <2>1, <2>2 DEF TypeOK, Hit
  <1>4. ASSUME NEW c \in Calls, Miss(c) PROVE TypeOK'
    <2> DEFINE s == [call[c] EXCEPT !.pc = "load"]
    <2>1. raw' = raw /\ ObjectIds' = ObjectIds
      BY <1>4 DEF Miss
    <2>2. s \in CallState(ObjectIds)'
      <3>1. call[c] \in CallState(ObjectIds) /\ call[c].pc = "seen"
        BY <1>4 DEF Miss, TypeOK
      <3>2. QED
        BY <2>1, <3>1 DEF CallState
    <2>3. call' \in [Calls -> CallState(ObjectIds)']
      BY <1>4, <2>1, <2>2, CallMoves DEF Miss
    <2>4. QED
      BY <1>4, <2>1, <2>3 DEF TypeOK, Miss
  <1>5. ASSUME NEW c \in Calls, Load(c) PROVE TypeOK'
    <2>1. PICK seen \in {cursor, {}} :
              /\ objects' = Append(objects, seen)
              /\ cache' = [cache EXCEPT ![Home[c]] = Len(objects) + 1]
              /\ Select(c, Len(objects) + 1, seen)
      BY <1>5 DEF Load
    <2>2. /\ raw' = raw /\ objects' \in Seq(SUBSET raw)
          /\ ObjectIds' = ObjectIds \cup {Len(objects) + 1}
      BY <1>5, <2>1 DEF Load, TypeOK
    <2>3. call' \in [Calls -> CallState(ObjectIds)']
      BY <1>5, <2>1, <2>2, CallSelects DEF Load
    <2>4. cache' \in [Runtimes -> ObjectIds' \cup {NoObject}]
      BY <2>1, <2>2 DEF TypeOK
    <2>5. QED
      BY <1>5, <2>2, <2>3, <2>4 DEF TypeOK, Load
  <1>6. ASSUME NEW c \in Calls, ModelFails(c) \/ RollBack(c) PROVE TypeOK'
    <2>1. /\ Goto(c, Idle)
          /\ UNCHANGED <<raw, extracted, cursor, objects, cache, drops>>
      BY <1>6 DEF ModelFails, RollBack
    <2>2. call' \in [Calls -> CallState(ObjectIds)']
      BY <2>1, CallReturns
    <2>3. QED
      BY <2>1, <2>2 DEF TypeOK
  <1>7. ASSUME NEW c \in Calls, ModelAnswers(c) PROVE TypeOK'
    <2> DEFINE s == [pc |-> "commit", obj |-> call[c].obj, new |-> call[c].new,
                     next |-> objects[call[c].obj] \cup call[c].new]
    <2>1. raw' = raw /\ ObjectIds' = ObjectIds /\ Goto(c, s)
      BY <1>7 DEF ModelAnswers
    <2>2. call[c].obj \in ObjectIds /\ call[c].new \in (SUBSET raw) \ {{}}
      BY <1>7, CallCases DEF ModelAnswers
    <2>3. objects[call[c].obj] \subseteq raw
      BY <2>2 DEF TypeOK
    <2>4. s \in CallState(ObjectIds)'
      BY <2>1, <2>2, <2>3 DEF CallState
    <2>5. call' \in [Calls -> CallState(ObjectIds)']
      BY <2>1, <2>4, CallMoves
    <2>6. QED
      BY <1>7, <2>1, <2>5 DEF TypeOK, ModelAnswers
  <1>8. ASSUME NEW c \in Calls, Commit(c) PROVE TypeOK'
    <2>1. /\ call[c].obj \in ObjectIds /\ call[c].next \subseteq raw
          /\ call[c].new \subseteq raw
      BY <1>8, CallCases DEF Commit
    <2>2. /\ raw' = raw /\ ObjectIds' = ObjectIds
          /\ objects' \in Seq(SUBSET raw)
      BY <1>8, <2>1 DEF Commit, TypeOK
    <2>3. call' \in [Calls -> CallState(ObjectIds)']
      BY <1>8, <2>2, CallReturns DEF Commit
    <2>4. QED
      BY <1>8, <2>1, <2>2, <2>3 DEF TypeOK, Commit
  <1>9. ASSUME NEW r \in Runtimes, Evict(r) PROVE TypeOK'
    <2>1. UNCHANGED <<raw, objects, call>>
      BY <1>9 DEF Evict
    <2>2. call' \in [Calls -> CallState(ObjectIds)']
      BY <2>1 DEF TypeOK, CallState
    <2>3. QED
      BY <1>9, <2>1, <2>2 DEF TypeOK, Evict
  <1>10. ASSUME NEW r \in Runtimes, Restart(r) PROVE TypeOK'
    <2>1. UNCHANGED <<raw, objects>>
      BY <1>10 DEF Restart
    <2>2. Idle \in CallState(ObjectIds)
      BY DEF CallState, Idle
    <2>3. call' \in [Calls -> CallState(ObjectIds)]
      BY <1>10, <2>2 DEF TypeOK, Restart
    <2>4. call' \in [Calls -> CallState(ObjectIds)']
      BY <2>1, <2>3 DEF CallState
    <2>5. QED
      BY <1>10, <2>1, <2>4 DEF TypeOK, Restart
  <1>11. CASE UNCHANGED vars
    <2>1. call' \in [Calls -> CallState(ObjectIds)']
      BY <1>11 DEF TypeOK, CallState, vars
    <2>2. QED
      BY <1>11, <2>1 DEF TypeOK, vars
  <1>12. QED
    BY <1>1, <1>2, <1>3, <1>4, <1>5, <1>6, <1>7, <1>8, <1>9, <1>10, <1>11
       DEF Next, CallStep

(* Each step keeps the marks within what was extracted.                    *)
LEMMA NextEarned == Inv /\ [Next]_vars => NothingIsSkipped' /\ AnswersAreEarned'
  <1> SUFFICES ASSUME Inv, [Next]_vars
               PROVE  NothingIsSkipped' /\ AnswersAreEarned'
    OBVIOUS
  <1> USE DEF Inv
  (* A call whose step leaves the marks alone, and does not end in commit. *)
  <1>a. ASSUME NEW c \in Calls, NEW s, s.pc # "commit", Goto(c, s),
               UNCHANGED <<extracted, cursor, objects>>
        PROVE  NothingIsSkipped' /\ AnswersAreEarned'
    BY <1>a DEF NothingIsSkipped, AnswersAreEarned, Goto, TypeOK
  <1>b. ASSUME NEW c \in Calls, NEW o, NEW seen, Select(c, o, seen)
        PROVE  \E s : s.pc # "commit" /\ Goto(c, s)
    BY <1>b DEF Select, Idle
  <1>1. ASSUME NEW c \in Calls, NEW incremental \in BOOLEAN,
               List(c, incremental)
        PROVE  NothingIsSkipped' /\ AnswersAreEarned'
    BY <1>1, <1>a DEF List
  <1>2. ASSUME NEW c \in Calls, Hit(c)
        PROVE  NothingIsSkipped' /\ AnswersAreEarned'
    BY <1>2, <1>a, <1>b DEF Hit
  <1>3. ASSUME NEW c \in Calls, Miss(c)
        PROVE  NothingIsSkipped' /\ AnswersAreEarned'
    <2>1. [call[c] EXCEPT !.pc = "load"].pc # "commit"
      <3>1. call[c] \in CallState(ObjectIds) /\ call[c].pc = "seen"
        BY <1>3 DEF Miss, TypeOK
      <3>2. QED
        BY <3>1 DEF CallState
    <2>2. QED
      BY <1>3, <1>a, <2>1 DEF Miss
  <1>4. ASSUME NEW c \in Calls, Load(c)
        PROVE  NothingIsSkipped' /\ AnswersAreEarned'
    <2>1. PICK seen \in {cursor, {}} :
              /\ objects' = Append(objects, seen)
              /\ Select(c, Len(objects) + 1, seen)
      BY <1>4 DEF Load
    <2>2. PICK s : s.pc # "commit" /\ Goto(c, s)
      BY <2>1, <1>b
    <2>3. /\ \A o \in DOMAIN objects' : objects'[o] = seen \/ o \in ObjectIds
          /\ \A o \in ObjectIds : objects'[o] = objects[o]
      BY <2>1 DEF TypeOK
    <2>4. seen \subseteq extracted
      BY DEF NothingIsSkipped
    <2>5. NothingIsSkipped'
      BY <1>4, <2>3, <2>4 DEF NothingIsSkipped, Load
    <2>6. AnswersAreEarned'
      BY <1>4, <2>2 DEF AnswersAreEarned, Load, Goto, TypeOK
    <2>7. QED
      BY <2>5, <2>6
  <1>5. ASSUME NEW c \in Calls, ModelFails(c) \/ RollBack(c)
        PROVE  NothingIsSkipped' /\ AnswersAreEarned'
    BY <1>5, <1>a DEF ModelFails, RollBack, Idle
  <1>6. ASSUME NEW c \in Calls, ModelAnswers(c)
        PROVE  NothingIsSkipped' /\ AnswersAreEarned'
    <2>1. call[c].obj \in ObjectIds
      BY <1>6, CallCases DEF ModelAnswers
    <2>2. objects[call[c].obj] \subseteq extracted
      BY <2>1 DEF NothingIsSkipped
    <2>3. QED
      BY <1>6, <2>2
         DEF ModelAnswers, NothingIsSkipped, AnswersAreEarned, Goto, TypeOK
  <1>7. ASSUME NEW c \in Calls, Commit(c)
        PROVE  NothingIsSkipped' /\ AnswersAreEarned'
    <2>1. call[c].next \subseteq extracted' /\ extracted \subseteq extracted'
      BY <1>7 DEF Commit, AnswersAreEarned
    <2>2. NothingIsSkipped'
      BY <1>7, <2>1 DEF Commit, NothingIsSkipped, TypeOK
    <2>3. AnswersAreEarned'
      BY <1>7, <2>1 DEF Commit, AnswersAreEarned, Goto, Idle, TypeOK
    <2>4. QED
      BY <2>2, <2>3
  <1>8. ASSUME NEW r \in Runtimes, Restart(r)
        PROVE  NothingIsSkipped' /\ AnswersAreEarned'
    BY <1>8 DEF Restart, NothingIsSkipped, AnswersAreEarned, Idle
  <1>9. CASE \/ \E e \in Events : Capture(e)
             \/ \E r \in Runtimes : Evict(r)
             \/ UNCHANGED vars
    BY <1>9 DEF Capture, Evict, vars, NothingIsSkipped, AnswersAreEarned
  <1>10. QED
    BY <1>1, <1>2, <1>3, <1>4, <1>5, <1>6, <1>7, <1>8, <1>9 DEF Next, CallStep

(* The set of extracted ids, wherever a copy of it is kept, holds events   *)
(* of the store.                                                           *)
THEOREM CursorTypeOK == Spec => []TypeOK
  <1>1. Init => TypeOK
    BY InitInv DEF Inv
  <1>2. TypeOK /\ [Next]_vars => TypeOK'
    BY NextTypeOK
  <1>3. QED
    BY <1>1, <1>2, PTL DEF Spec

(* No event is passed over: an id that the cursor or a runtime has marked  *)
(* is that of an event whose candidates are in the store, for any number   *)
(* of processes, threads, failures and restarts.                           *)
THEOREM ExtractionSkipsNothing == Spec => []NothingIsSkipped
  <1>1. Init => Inv
    BY InitInv
  <1>2. Inv /\ [Next]_vars => Inv'
    BY NextTypeOK, NextEarned DEF Inv
  <1>3. Inv => NothingIsSkipped
    BY DEF Inv
  <1>4. QED
    BY <1>1, <1>2, <1>3, PTL DEF Spec

=============================================================================
