------------------------- MODULE IdempotencyProofs -------------------------
(***************************************************************************)
(* Proofs about process() and the idempotency keys, for any number of      *)
(* calls, keys and users.  OneIntentPerKey is not inductive: a call that   *)
(* is about to post must own the record of its key (Reserved), and a       *)
(* record, once inserted, never changes its hash or goes away, so every    *)
(* journal posted under the key matches it (Matching).                     *)
(***************************************************************************)
EXTENDS Idempotency, TLAPS

Owns(c) == KeyOf(c) # NoRecord /\ KeyOf(c).hash = Hash[c]

\* A call past its reservation, and a call that has posted, match the record.
Reserved == \A c \in Call : pc[c] \in Running => Owns(c)
Matching == \A c \in posted : Owns(c)

\* A stored response, and one about to be stored, describe a journal of the key.
Stored ==
  /\ \A c \in Call : pc[c] = "complete" => c \in posted
  /\ \A c \in Call : Replayable(KeyOf(c)) =>
       KeyOf(c).body \in posted /\ Slot[KeyOf(c).body] = Slot[c]
  /\ \A c \in Call : answer[c] # NoResponse =>
       answer[c] \in posted /\ SameRequest(answer[c], c)

IInv == TypeOK /\ Reserved /\ Matching /\ Stored

-----------------------------------------------------------------------------
\* No key is reserved and nothing is posted at the start.
LEMMA InitIInv == Init => IInv
  <1> SUFFICES ASSUME Init PROVE IInv
    OBVIOUS
  <1>1. TypeOK
    BY CallAssumption DEF Init, TypeOK, Active, Final, Running
  <1>2. Reserved /\ Matching /\ Stored
    BY DEF Init, Reserved, Matching, Stored, Running, KeyOf, Replayable, Slots
  <1>3. QED
    BY <1>1, <1>2 DEF IInv

\* A step that leaves keys, posted and answer alone, and starts no run
\* without owning the key, keeps the invariant.
LEMMA QuietStep ==
  ASSUME IInv, NEW c \in Call, NEW s \in Active \cup Final,
         Goto(c, s), attempt' \in [Call -> 1 .. MaxAttempts],
         UNCHANGED <<keys, posted, answer>>,
         s \in Running => Owns(c), s # "complete"
  PROVE  IInv'
  <1>1. TypeOK'
    BY DEF IInv, TypeOK, Goto
  <1>2. Reserved'
    BY DEF IInv, TypeOK, Reserved, Owns, KeyOf, Goto
  <1>3. Matching' /\ Stored'
    BY DEF IInv, TypeOK, Matching, Stored, Owns, KeyOf, Goto, Replayable, SameRequest
  <1>4. QED
    BY <1>1, <1>2, <1>3 DEF IInv

\* Every step of a call, and every fault, preserves the invariant.
LEMMA NextIInv == IInv /\ [Next]_vars => IInv'
  <1> SUFFICES ASSUME IInv, [Next]_vars PROVE IInv'
    OBVIOUS
  <1>0. TypeOK /\ Reserved /\ Matching /\ Stored
    BY DEF IInv
  <1>s. \A c \in Call : Slot[c] \in Slots /\ Hash[c] \in Hashes
    BY DEF Slots, Hashes
  <1>k. \A c \in Call : KeyOf(c) # NoRecord => KeyOf(c) \in Record
    BY <1>0, <1>s DEF TypeOK, KeyOf
  <1>n. ASSUME NEW x \in Record PROVE x # NoRecord
    <2>1. x = [hash |-> x.hash, status |-> x.status, body |-> x.body]
      BY DEF Record
    <2>2. QED
      BY <2>1 DEF NoRecord
  <1>1. ASSUME NEW c \in Call, FindKey(c) PROVE IInv'
    <2>1. CASE ~UNCHANGED answer
      <3>1. /\ KeyOf(c) # NoRecord /\ KeyOf(c).hash = Hash[c] /\ Replayable(KeyOf(c))
            /\ answer' = [answer EXCEPT ![c] = KeyOf(c).body]
            /\ pc' = [pc EXCEPT ![c] = "created"]
            /\ UNCHANGED <<attempt, keys, posted>>
        BY <1>1, <2>1 DEF FindKey, Respond, Goto
      <3>2. KeyOf(c).body \in posted /\ KeyOf(c).body \in Call
        BY <1>0, <3>1 DEF Stored, TypeOK
      <3>3. SameRequest(KeyOf(c).body, c)
        BY <1>0, <3>1, <3>2 DEF Stored, Matching, Owns, KeyOf, SameRequest
      <3>4. TypeOK'
        BY <1>0, <3>1, <3>2 DEF TypeOK, Active, Final
      <3>5. Reserved' /\ Matching'
        BY <1>0, <3>1 DEF TypeOK, Reserved, Matching, Owns, KeyOf, Running
      <3>6. Stored'
        BY <1>0, <3>1, <3>2, <3>3 DEF TypeOK, Stored, KeyOf, Replayable, SameRequest
      <3>7. QED
        BY <3>4, <3>5, <3>6 DEF IInv
    <2>2. CASE UNCHANGED answer
      <3>1. PICK s \in {"create", "conflict", "resolve", "created"} :
              Goto(c, s) /\ (s = "resolve" => Owns(c))
        BY <1>1, <2>2 DEF FindKey, Owns, Respond
      <3>2. s \in Active \cup Final /\ s # "complete" /\ (s \in Running => s = "resolve")
        BY DEF Active, Final, Running
      <3>3. attempt' \in [Call -> 1 .. MaxAttempts] /\ UNCHANGED <<keys, posted, answer>>
        BY <1>0, <1>1, <2>2 DEF FindKey, TypeOK
      <3>4. QED
        BY <3>1, <3>2, <3>3, QuietStep
    <2>3. QED
      BY <2>1, <2>2
  <1>2. ASSUME NEW c \in Call, CreateKey(c) PROVE IInv'
    <2> DEFINE k == [hash |-> Hash[c], status |-> "PROCESSING", body |-> NoResponse]
    <2>1. /\ keys[Slot[c]] = NoRecord
          /\ keys' = [keys EXCEPT ![Slot[c]] = k]
          /\ pc' = [pc EXCEPT ![c] = "resolve"]
          /\ UNCHANGED <<attempt, posted, answer>>
      BY <1>2 DEF CreateKey, SetKey, Goto, KeyOf
    <2>2. k \in Record /\ k # NoRecord
      BY <1>s DEF Record, Status, NoRecord
    <2>3. TypeOK'
      BY <1>0, <2>1, <2>2 DEF TypeOK, Active, Running
    <2>4. \A d \in Call : Owns(d) => Slot[d] # Slot[c] /\ Owns(d)'
      BY <1>0, <1>s, <2>1 DEF Owns, KeyOf, TypeOK
    <2>5. Owns(c)'
      BY <1>0, <1>s, <2>1, <2>2 DEF Owns, KeyOf, TypeOK
    <2>6. Reserved' /\ Matching'
      BY <1>0, <2>1, <2>4, <2>5 DEF Reserved, Matching, TypeOK
    <2>7. Stored'
      BY <1>0, <1>s, <2>1 DEF Stored, TypeOK, KeyOf, Replayable, SameRequest
    <2>8. QED
      BY <2>3, <2>6, <2>7 DEF IInv
  <1>3. ASSUME NEW c \in Call, LoseRace(c) \/ ReserveConflict(c) PROVE IInv'
    <2>1. PICK s \in {"find", "error"} : Goto(c, s)
      BY <1>3 DEF LoseRace, ReserveConflict, Retry
    <2>2. attempt' \in [Call -> 1 .. MaxAttempts]
      BY <1>0, <1>3, CallAssumption DEF LoseRace, ReserveConflict, Retry, TypeOK
    <2>3. UNCHANGED <<keys, posted, answer>>
      BY <1>3 DEF LoseRace, ReserveConflict
    <2>4. s \in Active \cup Final /\ s # "complete" /\ s \notin Running
      BY DEF Active, Final, Running
    <2>5. QED
      BY <2>1, <2>2, <2>3, <2>4, QuietStep
  <1>4. ASSUME NEW c \in Call, ResolveAccounts(c) \/ Abort(c) PROVE IInv'
    <2>1. PICK s \in {"execute", "error"} : Goto(c, s) /\ (s = "execute" => pc[c] = "resolve")
      BY <1>4 DEF ResolveAccounts, Abort
    <2>2. s = "execute" => Owns(c)
      BY <1>0, <2>1 DEF Reserved, Running
    <2>3. attempt' \in [Call -> 1 .. MaxAttempts] /\ UNCHANGED <<keys, posted, answer>>
      BY <1>0, <1>4 DEF ResolveAccounts, Abort, TypeOK
    <2>4. s \in Active \cup Final /\ s # "complete" /\ (s \in Running => s = "execute")
      BY DEF Active, Final, Running
    <2>5. QED
      BY <2>1, <2>2, <2>3, <2>4, QuietStep
  <1>5. ASSUME NEW c \in Call, Execute(c) PROVE IInv'
    <2>1. PICK s \in {"complete", "fail"} :
            /\ pc' = [pc EXCEPT ![c] = s]
            /\ posted' = posted \cup {c} \/ posted' = posted
            /\ s = "complete" => c \in posted'
      BY <1>5 DEF Execute, Goto
    <2>2. Owns(c) /\ UNCHANGED <<attempt, keys, answer>>
      BY <1>0, <1>5 DEF Execute, Reserved, Running
    <2>3. TypeOK'
      BY <1>0, <2>1, <2>2 DEF TypeOK, Active, Running
    <2>4. Reserved' /\ Matching'
      BY <1>0, <2>1, <2>2 DEF Reserved, Matching, Owns, KeyOf, TypeOK
    <2>5. Stored'
      BY <1>0, <2>1, <2>2 DEF Stored, TypeOK, KeyOf, Replayable, SameRequest
    <2>6. QED
      BY <2>3, <2>4, <2>5 DEF IInv
  <1>6. ASSUME NEW c \in Call, MarkCompleted(c) PROVE IInv'
    <2> DEFINE k == [KeyOf(c) EXCEPT !.status = "COMPLETED", !.body = c]
    <2>1. /\ keys' = [keys EXCEPT ![Slot[c]] = k]
          /\ pc' = [pc EXCEPT ![c] = "created"]
          /\ answer' = [answer EXCEPT ![c] = c]
          /\ UNCHANGED <<attempt, posted>>
      BY <1>6 DEF MarkCompleted, SetKey, Respond, Goto
    <2>2. c \in posted /\ Owns(c)
      BY <1>0, <1>6 DEF MarkCompleted, Stored, Reserved, Running
    <2>a. KeyOf(c) \in Record /\ KeyOf(c).hash = Hash[c]
      BY <1>k, <2>2 DEF Owns
    <2>b. k \in Record /\ k.hash = Hash[c] /\ k.body = c
      BY <2>a DEF Record, Status
    <2>3. k \in Record /\ k.hash = Hash[c] /\ k.body = c /\ k # NoRecord
      BY <2>b, <1>n
    <2>4. TypeOK'
      BY <1>0, <2>1, <2>3 DEF TypeOK, Active, Final
    <2>5. \A d \in Call : Owns(d) => Owns(d)'
      BY <1>0, <1>s, <2>1, <2>2, <2>3 DEF Owns, KeyOf, TypeOK
    <2>6. Reserved' /\ Matching'
      BY <1>0, <2>1, <2>5 DEF Reserved, Matching, TypeOK, Running
    <2>7. Stored'
      BY <1>0, <1>s, <2>1, <2>2, <2>3 DEF Stored, TypeOK, KeyOf, Replayable, SameRequest
    <2>8. QED
      BY <2>4, <2>6, <2>7 DEF IInv
  <1>7. ASSUME NEW c \in Call, MarkFailed(c) PROVE IInv'
    <2> DEFINE k == [KeyOf(c) EXCEPT !.status = "FAILED", !.body = NoResponse]
    <2>1. /\ keys' = [keys EXCEPT ![Slot[c]] = k]
          /\ pc' = [pc EXCEPT ![c] = "error"]
          /\ UNCHANGED <<attempt, posted, answer>>
      BY <1>7 DEF MarkFailed, SetKey, Goto
    <2>2. Owns(c)
      BY <1>0, <1>7 DEF MarkFailed, Reserved, Running
    <2>a. KeyOf(c) \in Record /\ KeyOf(c).hash = Hash[c]
      BY <1>k, <2>2 DEF Owns
    <2>b. k \in Record /\ k.hash = Hash[c] /\ k.status = "FAILED"
      BY <2>a DEF Record, Status
    <2>3. k \in Record /\ k.hash = Hash[c] /\ k.status = "FAILED" /\ k # NoRecord
      BY <2>b, <1>n
    <2>4. TypeOK'
      BY <1>0, <2>1, <2>3 DEF TypeOK, Active, Final
    <2>5. \A d \in Call : Owns(d) => Owns(d)'
      BY <1>0, <1>s, <2>1, <2>2, <2>3 DEF Owns, KeyOf, TypeOK
    <2>6. Reserved' /\ Matching'
      BY <1>0, <2>1, <2>5 DEF Reserved, Matching, TypeOK, Running
    <2>7. Stored'
      BY <1>0, <1>s, <2>1, <2>3 DEF Stored, TypeOK, KeyOf, Replayable, SameRequest
    <2>8. QED
      BY <2>4, <2>6, <2>7 DEF IInv
  <1>8. CASE UNCHANGED vars
    BY <1>8, <1>0 DEF vars, IInv, TypeOK, Reserved, Matching, Stored, Owns, KeyOf,
                      Replayable, SameRequest
  <1>9. QED
    BY <1>1, <1>2, <1>3, <1>4, <1>5, <1>6, <1>7, <1>8 DEF Next, Step, Fault, AllReturned

\* The invariant holds in every reachable state.
LEMMA AlwaysIInv == Spec => []IInv
  <1>1. QED
    BY InitIInv, NextIInv, PTL DEF Spec

\* Whatever the number of duplicates and the order they run in, the journals
\* posted under one key of one user all come from the same request body.
THEOREM KeyHasOneIntent == Spec => []OneIntentPerKey
  <1>1. IInv => OneIntentPerKey
    BY DEF IInv, Matching, Owns, KeyOf, OneIntentPerKey, TypeOK
  <1>2. QED
    BY <1>1, AlwaysIInv, PTL

\* Every 201, computed or replayed, and every COMPLETED record describe a
\* committed journal of the same user, key and body.
THEOREM AnswersBacked == Spec => []AnswersAreBacked
  <1>1. IInv => AnswersAreBacked
    BY DEF IInv, Stored, AnswersAreBacked
  <1>2. QED
    BY <1>1, AlwaysIInv, PTL

\* The records, the calls and the answers have their types, and checkAndReserve()
\* starts at most MaxAttempts times, however the calls race.
THEOREM CallsAreTyped == Spec => []TypeOK
  <1>1. IInv => TypeOK
    BY DEF IInv
  <1>2. QED
    BY <1>1, AlwaysIInv, PTL

\* The step of a call that is not running leaves a replayable record of its
\* key as it is, posts nothing and does not start to run.
LEMMA IdleStep ==
  ASSUME IInv, NEW c \in Call, Step(c) \/ Fault(c),
         Replayable(KeyOf(c)), pc[c] \notin Running
  PROVE  /\ UNCHANGED <<keys, posted>>
         /\ \E s \in (Active \cup Final) \ Running : pc' = [pc EXCEPT ![c] = s]
  <1>0. KeyOf(c) # NoRecord
    BY DEF Replayable
  <1>1. CASE FindKey(c)
    <2>1. \E s \in {"create", "conflict", "created"} : pc' = [pc EXCEPT ![c] = s]
      BY <1>1, <1>0 DEF FindKey, Goto, Respond
    <2>2. QED
      BY <1>1, <2>1 DEF FindKey, Active, Final, Running
  <1>2. CASE LoseRace(c) \/ ReserveConflict(c)
    <2>1. \E s \in {"find", "error"} : pc' = [pc EXCEPT ![c] = s]
      BY <1>2 DEF LoseRace, ReserveConflict, Retry, Goto
    <2>2. QED
      BY <1>2, <2>1 DEF LoseRace, ReserveConflict, Active, Final, Running
  <1>3. CASE Abort(c)
    BY <1>3 DEF Abort, Goto, Active, Final, Running
  <1>4. ~CreateKey(c)
    BY <1>0 DEF CreateKey
  <1>5. ~ResolveAccounts(c) /\ ~Execute(c) /\ ~MarkCompleted(c) /\ ~MarkFailed(c)
    BY DEF ResolveAccounts, Execute, MarkCompleted, MarkFailed, Running
  <1>6. QED
    BY <1>1, <1>2, <1>3, <1>4, <1>5 DEF Step, Fault

\* The step of a call touches the record and the journals of its own key only.
LEMMA OwnKeyOnly ==
  ASSUME IInv, NEW c \in Call, Step(c) \/ Fault(c), NEW s \in Slots, Slot[c] # s
  PROVE  /\ keys'[s] = keys[s]
         /\ posted' = posted \/ posted' = posted \cup {c}
         /\ \E p \in Active \cup Final : pc' = [pc EXCEPT ![c] = p]
  <1>0. keys \in [Slots -> {NoRecord} \cup Record] /\ Slot[c] \in Slots
    BY DEF IInv, TypeOK, Slots
  <1>1. \A k : SetKey(c, k) => keys'[s] = keys[s]
    BY <1>0 DEF SetKey
  <1>2. keys'[s] = keys[s]
    BY <1>1 DEF Step, Fault, FindKey, CreateKey, LoseRace, ReserveConflict, ResolveAccounts,
                Execute, MarkCompleted, MarkFailed, Abort
  <1>3. posted' = posted \/ posted' = posted \cup {c}
    BY DEF Step, Fault, FindKey, CreateKey, LoseRace, ReserveConflict, ResolveAccounts,
           Execute, MarkCompleted, MarkFailed, Abort
  <1>4. \E p \in Active \cup Final : pc' = [pc EXCEPT ![c] = p]
    BY DEF Step, Fault, FindKey, CreateKey, LoseRace, ReserveConflict, Retry, ResolveAccounts,
           Execute, MarkCompleted, MarkFailed, Abort, Goto, Respond, Active, Running, Final
  <1>5. QED
    BY <1>2, <1>3, <1>4

\* Once a key is COMPLETED and the calls that raced for it are over, no later
\* call, retry or fault changes its response or posts again under it.
THEOREM SettledKeysStay == Spec => SettledKeyIsFinal
  <1> DEFINE Kept(s) == /\ Settled(s)'
                        /\ keys'[s] = keys[s]
                        /\ {c \in posted' : Slot[c] = s} = {c \in posted : Slot[c] = s}
             A == \A s \in Slots : Settled(s) => Kept(s)
  <1>1. ASSUME IInv, [Next]_vars PROVE [A]_vars
    <2>1. ASSUME NEW c \in Call, Step(c) \/ Fault(c), NEW s \in Slots, Settled(s) PROVE Kept(s)
      <3>0. pc \in [Call -> Active \cup Final] /\ posted \subseteq Call
        BY <1>1 DEF IInv, TypeOK
      <3>1. CASE Slot[c] = s
        <4>1. Replayable(KeyOf(c)) /\ pc[c] \notin Running
          BY <2>1, <3>1 DEF Settled, KeyOf
        <4>2. PICK p \in (Active \cup Final) \ Running : pc' = [pc EXCEPT ![c] = p]
          BY <1>1, <2>1, <4>1, IdleStep
        <4>3. UNCHANGED <<keys, posted>>
          BY <1>1, <2>1, <4>1, IdleStep
        <4>4. Settled(s)'
          BY <2>1, <3>0, <4>2, <4>3 DEF Settled, Replayable
        <4>5. QED
          BY <4>3, <4>4
      <3>2. CASE Slot[c] # s
        <4>1. keys'[s] = keys[s] /\ (posted' = posted \/ posted' = posted \cup {c})
          BY <1>1, <2>1, <3>2, OwnKeyOnly
        <4>2. PICK p \in Active \cup Final : pc' = [pc EXCEPT ![c] = p]
          BY <1>1, <2>1, <3>2, OwnKeyOnly
        <4>3. Settled(s)'
          BY <2>1, <3>0, <3>2, <4>1, <4>2 DEF Settled, Replayable
        <4>4. {d \in posted' : Slot[d] = s} = {d \in posted : Slot[d] = s}
          BY <3>2, <4>1
        <4>5. QED
          BY <4>1, <4>3, <4>4
      <3>3. QED
        BY <3>1, <3>2
    <2>2. QED
      BY <1>1, <2>1 DEF Next, AllReturned
  <1>2. QED
    BY <1>1, AlwaysIInv, PTL DEF Spec, SettledKeyIsFinal
=============================================================================
