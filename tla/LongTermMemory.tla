--------------------------- MODULE LongTermMemory ---------------------------
(***************************************************************************)
(* packages/harness/long_term_memory.py: facts and preferences a person    *)
(* confirmed, in one file.  Every operation loads and validates the whole  *)
(* file under the lock of its store, changes its copy and replaces the     *)
(* file.  Each process has a store, and so a lock, of its own: the API     *)
(* server and the command line.  The write may raise and a process die at  *)
(* any step.                                                               *)
(* A name folds to its key (casefold); kind is part of the name.           *)
(***************************************************************************)
EXTENDS Integers, FiniteSets, Sequences

CONSTANTS Names, Fold,     \* the spellings of a key, and what each folds to
          Contents,        \* values that may be remembered
          Users, Store,  \* threads, and the store each calls
          MaxRecords,      \* max_records (100)
          MaxMade, MaxRevision, MaxMemoryFaults   \* bounds

NoCaller == "none"

ASSUME MemoryAssumption ==
  MaxRecords \in Nat \ {0} /\ DOMAIN Fold = Names /\ NoCaller \notin Users

VARIABLES file,       \* memory.json: its records, by memory_id, "broken" is an edit
          owner,      \* the caller that holds each store's lock
          memory_op,         \* what each caller is doing, with its copy of the file
          ids,        \* memory ids ever made
          faults,
          confirmed,  \* history: the last confirmed answer about each key
          overtaken   \* history: keys a copy loaded before another process's save may have undone

memoryVars == <<file, owner, memory_op, ids, faults, confirmed, overtaken>>

Keys == {Fold[n] : n \in Names}
Quiet == [at |-> "idle", do |-> "none", name |-> "none", value |-> "none", id |-> 0, copy |-> <<>>,
          crossed |-> "no"]
Nothing == [value |-> "none", revision |-> 0]

MemoryInit ==
  /\ file = <<>> /\ owner = [s \in {Store[c] : c \in Users} |-> NoCaller]
  /\ memory_op = [c \in Users |-> Quiet]
  /\ ids = 0 /\ faults = 0
  /\ confirmed = [k \in Keys |-> Nothing]
  /\ overtaken = {}

\* _validate_payload.
ValidRecords(records) ==
  /\ Cardinality(DOMAIN records) <= MaxRecords
  /\ \A i, j \in DOMAIN records :
       Fold[records[i].name] = Fold[records[j].name] => i = j

\* A person confirmed the call; it waits for the lock.
CallRemember(c, name, value) ==
  /\ memory_op[c].at = "idle" /\ ids < MaxMade
  /\ memory_op' = [memory_op EXCEPT ![c] = [Quiet EXCEPT !.at = "wait", !.do = "remember",
                                           !.name = name, !.value = value]]
  /\ UNCHANGED <<file, owner, ids, faults, confirmed, overtaken>>

CallForget(c, id) ==
  /\ memory_op[c].at = "idle"
  /\ memory_op' = [memory_op EXCEPT ![c] = [Quiet EXCEPT !.at = "wait", !.do = "forget", !.id = id]]
  /\ UNCHANGED <<file, owner, ids, faults, confirmed, overtaken>>

FaultyMemoryLockFree(c) == TRUE
MemoryLockFree(c) == owner[Store[c]] = NoCaller

\* _load: a file that is not valid refuses every operation and stays.
Load(c) ==
  /\ memory_op[c].at = "wait" /\ MemoryLockFree(c)
  /\ owner' = [owner EXCEPT ![Store[c]] = c]
  /\ memory_op' = [memory_op EXCEPT ![c].at = "loaded", ![c].copy = file]
  /\ UNCHANGED <<file, ids, faults, confirmed, overtaken>>

\* The record of the same folded key, if there is one.
Existing(records, name) == {i \in DOMAIN records : Fold[records[i].name] = Fold[name]}

FaultyRemembered(records, name, value) ==
  [i \in DOMAIN records \cup {ids + 1} |->
     IF i \in DOMAIN records THEN records[i] ELSE [name |-> name, value |-> value, revision |-> 1]]

Remembered(records, name, value) ==
  IF Existing(records, name) = {}
  THEN [i \in DOMAIN records \cup {ids + 1} |->
          IF i \in DOMAIN records THEN records[i]
          ELSE [name |-> name, value |-> value, revision |-> 1]]
  ELSE [i \in DOMAIN records |->
          IF i \notin Existing(records, name)
             \/ (records[i].name = name /\ records[i].value = value)
          THEN records[i]
          ELSE [name |-> name, value |-> value, revision |-> records[i].revision + 1]]

Forgotten(records, id) == [i \in DOMAIN records \ {id} |-> records[i]]

\* What the operation would leave, and whether it is refused.
Outcome(c) ==
  IF memory_op[c].do = "remember" THEN Remembered(memory_op[c].copy, memory_op[c].name, memory_op[c].value)
  ELSE Forgotten(memory_op[c].copy, memory_op[c].id)

FaultyAccepted(c) == memory_op[c].do = "remember" \/ memory_op[c].id \in DOMAIN memory_op[c].copy

Accepted(c) ==
  IF memory_op[c].do = "remember"
  THEN \/ Existing(memory_op[c].copy, memory_op[c].name) # {}
       \/ Cardinality(DOMAIN memory_op[c].copy) < MaxRecords
  ELSE memory_op[c].id \in DOMAIN memory_op[c].copy

Release(c) ==
  /\ owner' = [owner EXCEPT ![Store[c]] = NoCaller]
  /\ memory_op' = [memory_op EXCEPT ![c] = Quiet]

RefuseMemory(c) ==
  /\ memory_op[c].at = "loaded" /\ ~Accepted(c)
  /\ Release(c)
  /\ UNCHANGED <<file, ids, faults, confirmed, overtaken>>

\* _save replaces the file in one step; nothing is written when nothing changed.
SaveMemory(c) ==
  /\ memory_op[c].at = "loaded" /\ Accepted(c)
  /\ \A i \in DOMAIN Outcome(c) : Outcome(c)[i].revision <= MaxRevision
  /\ LET after == Outcome(c)
         key == IF memory_op[c].do = "remember" THEN Fold[memory_op[c].name] ELSE Fold[memory_op[c].copy[memory_op[c].id].name]
         made == {i \in DOMAIN after : Fold[after[i].name] = key}
     IN  /\ file' = IF after = memory_op[c].copy THEN file ELSE after
         /\ ids' = IF DOMAIN after \ DOMAIN memory_op[c].copy = {} THEN ids ELSE ids + 1
         /\ confirmed' = [confirmed EXCEPT ![key] =
              IF memory_op[c].do = "forget" THEN Nothing
              ELSE LET r == after[CHOOSE i \in made : TRUE]
                   IN  [value |-> r.value, revision |-> r.revision]]
         /\ overtaken' = IF memory_op[c].crossed = "yes" THEN Keys ELSE overtaken
         /\ owner' = [owner EXCEPT ![Store[c]] = NoCaller]
         /\ memory_op' = [d \in Users |->
              IF d = c THEN Quiet
              ELSE IF memory_op[d].at = "loaded" /\ Store[d] # Store[c] /\ after # memory_op[c].copy
              THEN [memory_op[d] EXCEPT !.crossed = "yes"] ELSE memory_op[d]]
  /\ UNCHANGED faults

\* The write raises: the temporary file goes, the file stays as it was.
SaveRaises(c) ==
  /\ memory_op[c].at = "loaded" /\ Accepted(c) /\ faults < MaxMemoryFaults
  /\ faults' = faults + 1
  /\ Release(c)
  /\ UNCHANGED <<file, ids, confirmed, overtaken>>

\* A process dies with its threads and its lock.
StoreDies(s) ==
  /\ faults < MaxMemoryFaults /\ faults' = faults + 1
  /\ owner' = [owner EXCEPT ![s] = NoCaller]
  /\ memory_op' = [c \in Users |-> IF Store[c] = s THEN Quiet ELSE memory_op[c]]
  /\ UNCHANGED <<file, ids, confirmed, overtaken>>

MemoryNext ==
  \/ \E c \in Users :
       \/ \E name \in Names, value \in Contents : CallRemember(c, name, value)
       \/ \E id \in 1..ids : CallForget(c, id)
       \/ Load(c) \/ RefuseMemory(c) \/ SaveMemory(c) \/ SaveRaises(c)
  \/ \E s \in DOMAIN owner : StoreDies(s)

MemorySpec == MemoryInit /\ [][MemoryNext]_memoryVars

-----------------------------------------------------------------------------
\* At every moment, also in the middle of a call, after a write that raised
\* and after a crash, the file is one the next load accepts.
FileIsAccepted == ValidRecords(file)

\* What a person confirmed is what the file holds of that key, value and
\* revision, unless another process saved a copy it had loaded before.
ConfirmedIsKept ==
  \A k \in Keys \ overtaken :
    LET held == {i \in DOMAIN file : Fold[file[i].name] = k}
    IN  IF confirmed[k] = Nothing THEN held = {}
        ELSE \E i \in held : /\ file[i].value = confirmed[k].value
                             /\ file[i].revision = confirmed[k].revision

\* Both, for the callers of one store in every order, and with the files that
\* two processes interleave still whole.
MemoryIsKept == FileIsAccepted /\ ConfirmedIsKept
=============================================================================
