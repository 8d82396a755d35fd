---------------------------- MODULE Idempotency ----------------------------
(***************************************************************************)
(* TransactionsService.process() and the IdempotencyService: HTTP calls    *)
(* that carry an X-Idempotency-Key reserve the key in a SERIALIZABLE       *)
(* transaction, replay the stored response of a COMPLETED key, and         *)
(* otherwise resolve the accounts, run the handler and record the outcome  *)
(* in a separate statement.  Calls with the same key may be in flight      *)
(* together: duplicates of a proxy, retries after a lost answer.           *)
(*                                                                         *)
(* A call is its own identity: the journal it posts, and the response body *)
(* that describes that journal, are named by the call.  The posting itself *)
(* is the atomic step LedgerPosting justifies (AllOrNothing).              *)
(***************************************************************************)
EXTENDS Naturals

CONSTANTS
  Call,        \* the calls of process()
  Slot,        \* the (key, userId) pair each call presents
  Hash,        \* hashRequestBody() of each call's dto
  Implemented, \* the calls whose dto.type has a handler
  NoResponse,  \* a NULL response_body
  MaxAttempts  \* checkAndReserve's maxRetries

Slots == {Slot[c] : c \in Call}

ASSUME CallAssumption ==
  /\ Slot = [c \in Call |-> Slot[c]]
  /\ Hash = [c \in Call |-> Hash[c]]
  /\ Implemented \subseteq Call
  /\ NoResponse \notin Call
  /\ MaxAttempts \in Nat \ {0}

VARIABLES
  pc,      \* where each call is
  attempt, \* the attempt of checkAndReserve each call is in
  keys,    \* idempotency_keys: slot -> at most one record
  posted,  \* the calls whose journal is committed
  answer   \* the 201 body each caller has received

vars == <<pc, attempt, keys, posted, answer>>

Status == {"PROCESSING", "COMPLETED", "FAILED"}
Hashes == {Hash[c] : c \in Call}

\* A FAILED record's body is an error object, never replayed: NoResponse.
Record   == [hash : Hashes, status : Status, body : Call \cup {NoResponse}]
NoRecord == <<>>

Running == {"resolve", "execute", "complete", "fail"}
Active  == {"find", "create"} \cup Running
Final   == {"created", "badRequest", "conflict", "error"}

Goto(c, s)      == pc' = [pc EXCEPT ![c] = s]
KeyOf(c)        == keys[Slot[c]]
SetKey(c, k)    == keys' = [keys EXCEPT ![Slot[c]] = k]
Respond(c, b)   == answer' = [answer EXCEPT ![c] = b] /\ Goto(c, "created")
Replayable(k)   == k # NoRecord /\ k.status = "COMPLETED" /\ k.body # NoResponse

Init ==
  \* a dto.type without a handler is a 400 before the key is looked at
  /\ pc = [c \in Call |-> IF c \in Implemented THEN "find" ELSE "badRequest"]
  /\ attempt = [c \in Call |-> 1]
  /\ keys = [s \in Slots |-> NoRecord]
  /\ posted = {}
  /\ answer = [c \in Call |-> NoResponse]

-----------------------------------------------------------------------------
\* Mutant: a COMPLETED key is executed again.
FindKeyNoReplay(c) ==
  /\ pc[c] = "find"
  /\ Goto(c, IF KeyOf(c) = NoRecord THEN "create"
             ELSE IF KeyOf(c).hash # Hash[c] THEN "conflict" ELSE "resolve")
  /\ UNCHANGED <<attempt, keys, posted, answer>>

\* Mutant: the request hash is not compared.
FindKeyAnyHash(c) ==
  /\ pc[c] = "find"
  /\ \/ /\ KeyOf(c) = NoRecord
        /\ Goto(c, "create") /\ UNCHANGED answer
     \/ /\ Replayable(KeyOf(c))
        /\ Respond(c, KeyOf(c).body)
     \/ /\ KeyOf(c) # NoRecord /\ ~Replayable(KeyOf(c))
        /\ Goto(c, "resolve") /\ UNCHANGED answer
  /\ UNCHANGED <<attempt, keys, posted>>

\* checkAndReserve(), findUnique: a record with another hash is a 409; a
\* COMPLETED one is replayed; a PROCESSING or FAILED one is executed again.
FindKey(c) ==
  /\ pc[c] = "find"
  /\ \/ /\ KeyOf(c) = NoRecord
        /\ Goto(c, "create") /\ UNCHANGED answer
     \/ /\ KeyOf(c) # NoRecord /\ KeyOf(c).hash # Hash[c]
        /\ Goto(c, "conflict") /\ UNCHANGED answer
     \/ /\ KeyOf(c) # NoRecord /\ KeyOf(c).hash = Hash[c]
        /\ Replayable(KeyOf(c))
        /\ Respond(c, KeyOf(c).body)
     \/ /\ KeyOf(c) # NoRecord /\ KeyOf(c).hash = Hash[c]
        /\ ~Replayable(KeyOf(c))
        /\ Goto(c, "resolve") /\ UNCHANGED answer
  /\ UNCHANGED <<attempt, keys, posted>>

\* Mutant: an upsert in place of the insert.
CreateKeyUpsert(c) ==
  /\ pc[c] = "create"
  /\ SetKey(c, [hash |-> Hash[c], status |-> "PROCESSING", body |-> NoResponse])
  /\ Goto(c, "resolve")
  /\ UNCHANGED <<attempt, posted, answer>>

\* checkAndReserve(), create and COMMIT: nobody inserted the key meanwhile.
CreateKey(c) ==
  /\ pc[c] = "create"
  /\ KeyOf(c) = NoRecord
  /\ SetKey(c, [hash |-> Hash[c], status |-> "PROCESSING", body |-> NoResponse])
  /\ Goto(c, "resolve")
  /\ UNCHANGED <<attempt, posted, answer>>

\* Mutant: one attempt too many.
RetryOnceMore(c) ==
  /\ attempt[c] <= MaxAttempts
  /\ attempt' = [attempt EXCEPT ![c] = @ + 1]
  /\ Goto(c, "find")

\* A serialization failure: roll back and start over.
Retry(c) ==
  /\ attempt[c] < MaxAttempts
  /\ attempt' = [attempt EXCEPT ![c] = @ + 1]
  /\ Goto(c, "find")

\* Mutant: the insert is retried for ever, without a new read.
LoseRaceNoReread(c) ==
  /\ pc[c] = "create"
  /\ KeyOf(c) # NoRecord
  /\ UNCHANGED vars

\* The key was inserted since it was read.  PostgreSQL reports it as a
\* serialization failure, which is retried, or as a unique violation, which
\* is not.
LoseRace(c) ==
  /\ pc[c] = "create"
  /\ KeyOf(c) # NoRecord
  /\ Retry(c) \/ (Goto(c, "error") /\ UNCHANGED attempt)
  /\ UNCHANGED <<keys, posted, answer>>

\* A spurious serialization failure or deadlock of the reservation.
ReserveConflict(c) ==
  /\ pc[c] \in {"find", "create"}
  /\ Retry(c)
  /\ UNCHANGED <<keys, posted, answer>>

\* resolveAccounts() is outside the try: when an account does not exist the
\* caller gets a 404 and the key stays PROCESSING.
ResolveAccounts(c) ==
  /\ pc[c] = "resolve"
  /\ Goto(c, "execute") \/ Goto(c, "error")
  /\ UNCHANGED <<attempt, keys, posted, answer>>

\* handler.execute(): posts and returns; is rejected; or throws although the
\* journal is committed (a failed snapshot refresh, a lost acknowledgement).
Execute(c) ==
  /\ pc[c] = "execute"
  /\ \/ posted' = posted \cup {c} /\ Goto(c, "complete")
     \/ UNCHANGED posted /\ Goto(c, "fail")
     \/ posted' = posted \cup {c} /\ Goto(c, "fail")
  /\ UNCHANGED <<attempt, keys, answer>>

\* markCompleted(): an unconditional update by record id.
MarkCompleted(c) ==
  /\ pc[c] = "complete"
  /\ SetKey(c, [KeyOf(c) EXCEPT !.status = "COMPLETED", !.body = c])
  /\ Respond(c, c)
  /\ UNCHANGED <<attempt, posted>>

\* markFailed(): likewise, whatever another call has stored meanwhile.
MarkFailed(c) ==
  /\ pc[c] = "fail"
  /\ SetKey(c, [KeyOf(c) EXCEPT !.status = "FAILED", !.body = NoResponse])
  /\ Goto(c, "error")
  /\ UNCHANGED <<attempt, posted, answer>>

\* The server dies, or the statement at hand fails for good: the caller has
\* no 201 and the record stays as it is.
Abort(c) ==
  /\ pc[c] \in Active
  /\ Goto(c, "error")
  /\ UNCHANGED <<attempt, keys, posted, answer>>

-----------------------------------------------------------------------------
Step(c) ==
  \/ FindKey(c)
  \/ CreateKey(c)
  \/ LoseRace(c)
  \/ ResolveAccounts(c)
  \/ Execute(c)
  \/ MarkCompleted(c)
  \/ MarkFailed(c)

Fault(c) == ReserveConflict(c) \/ Abort(c)

\* Every call has returned.
AllReturned == (\A c \in Call : pc[c] \in Final) /\ UNCHANGED vars

Next == (\E c \in Call : Step(c) \/ Fault(c)) \/ AllReturned

Spec == Init /\ [][Next]_vars

\* The event loop keeps running every call; faults are never required.
FairSpec == Spec /\ \A c \in Call : WF_vars(Step(c))

-----------------------------------------------------------------------------
(* Properties.                                                             *)

\* The states calls and keys stay in; a reservation is attempted at most
\* MaxAttempts times.
TypeOK ==
  /\ pc \in [Call -> Active \cup Final]
  /\ attempt \in [Call -> 1 .. MaxAttempts]
  /\ keys \in [Slots -> {NoRecord} \cup Record]
  /\ posted \subseteq Call
  /\ answer \in [Call -> Call \cup {NoResponse}]

SameRequest(c, d) == Slot[c] = Slot[d] /\ Hash[c] = Hash[d]

\* A 201 is never a lie: the body a caller receives, from its own run or
\* replayed, describes a committed journal of the same user, key and body,
\* and so does the body of every COMPLETED record.
AnswersAreBacked ==
  /\ \A c \in Call : answer[c] # NoResponse =>
       answer[c] \in posted /\ SameRequest(answer[c], c)
  /\ \A c \in Call : Replayable(KeyOf(c)) => KeyOf(c).body \in posted

\* "same key, different intent is a client bug": two requests with different
\* bodies never both post under one key of one user, however they race.
OneIntentPerKey ==
  \A c, d \in posted : Slot[c] = Slot[d] => Hash[c] = Hash[d]

\* A key is settled when it is COMPLETED and no call is past its read of it.
Settled(s) ==
  /\ Replayable(keys[s])
  /\ \A c \in Call : Slot[c] = s => pc[c] \notin Running

\* A settled key is final: whatever calls follow, the stored response stays
\* and nothing more is posted under the key.
SettledKeyIsFinal ==
  [][\A s \in Slots : Settled(s) =>
       /\ Settled(s)'
       /\ keys'[s] = keys[s]
       /\ {c \in posted' : Slot[c] = s} = {c \in posted : Slot[c] = s}]_vars

\* Every call is answered, even when it loses the race for the key.
EveryCallAnswered == <>(\A c \in Call : pc[c] \in Final)

\* "Exactly-once processing guarantee": one journal per key of a user.
AtMostOncePerKey ==
  \A c, d \in posted : Slot[c] = Slot[d] => c = d
=============================================================================
