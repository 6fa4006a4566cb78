---------------------------- MODULE StreamBudget ----------------------------
(***************************************************************************)
(* `reserve` of the compiler driver: the byte counter that all drivers of  *)
(* an observed build share.  Drivers are processes that know nothing of    *)
(* each other: a directory made exclusively is the lock, a file holds the  *)
(* total in decimal and is rewritten in place.  A driver may be killed at  *)
(* any step, and any step may fail.                                        *)
(***************************************************************************)
EXTENDS Naturals

CONSTANTS
  Drivers,
  MAX_STREAM_BYTES,
  Requests,          \* amounts asked for
  Attempts,          \* times a busy lock is tried (50 in the code)
  FREE,              \* no lock directory
  ABSENT, EMPTY      \* no counter file; one that was emptied

ASSUME BudgetAssumption ==
  /\ MAX_STREAM_BYTES \in Nat /\ Requests \subseteq Nat
  /\ Attempts \in Nat \ {0}
  /\ FREE \notin Drivers
  /\ ABSENT \notin Nat /\ EMPTY \notin Nat /\ ABSENT # EMPTY

VARIABLES
  lock,     \* the driver whose directory it is, or FREE
  counter,  \* the counter file
  at,       \* the step each driver's call is at
  asked,    \* the bytes it asks for
  tries,    \* times it found the lock taken
  total,    \* the total it is about to write
  charged   \* all bytes granted so far

budgetVars == <<lock, counter, at, asked, tries, total, charged>>

Critical == {"read", "truncate", "write", "sync"}
Steps == {"idle", "try", "granted", "refused", "dead"} \union Critical

InitBudget ==
  /\ lock = FREE /\ counter = ABSENT /\ charged = 0
  /\ at = [d \in Drivers |-> "idle"]
  /\ asked = [d \in Drivers |-> 0]
  /\ tries = [d \in Drivers |-> 0]
  /\ total = [d \in Drivers |-> 0]

Reserve(d, bytes) ==
  /\ at[d] = "idle"
  /\ at' = [at EXCEPT ![d] = "try"]
  /\ asked' = [asked EXCEPT ![d] = bytes]
  /\ UNCHANGED <<lock, counter, tries, total, charged>>

TakeLock(d) ==
  /\ at[d] = "try" /\ lock = FREE
  /\ lock' = d
  /\ at' = [at EXCEPT ![d] = "read"]
  /\ tries' = [tries EXCEPT ![d] = 0]
  /\ UNCHANGED <<counter, asked, total, charged>>

(* Mutant: a busy lock is tried for ever. *)
LockBusy_Forever(d) ==
  /\ at[d] = "try" /\ lock # FREE
  /\ UNCHANGED budgetVars

LockBusy(d) ==
  /\ at[d] = "try" /\ lock # FREE
  /\ tries' = [tries EXCEPT ![d] = @ + 1]
  /\ at' = [at EXCEPT ![d] = IF tries[d] + 1 >= Attempts THEN "refused" ELSE "try"]
  /\ UNCHANGED <<lock, counter, asked, total, charged>>

(* Mutant: a counter that cannot be parsed counts as none. *)
ReadTotal_Lenient(d) ==
  LET used == IF counter \in {ABSENT, EMPTY} THEN 0 ELSE counter IN
  /\ at[d] = "read"
  /\ IF used + asked[d] > MAX_STREAM_BYTES
     THEN /\ at' = [at EXCEPT ![d] = "refused"]
          /\ lock' = FREE
          /\ UNCHANGED total
     ELSE /\ at' = [at EXCEPT ![d] = "truncate"]
          /\ total' = [total EXCEPT ![d] = used + asked[d]]
          /\ UNCHANGED lock
  /\ UNCHANGED <<counter, asked, tries, charged>>

(* Mutant: the limit is compared with the bytes used so far. *)
ReadTotal_Before(d) ==
  LET used == IF counter = ABSENT THEN 0 ELSE counter IN
  /\ at[d] = "read"
  /\ IF counter = EMPTY \/ used > MAX_STREAM_BYTES
     THEN /\ at' = [at EXCEPT ![d] = "refused"]
          /\ lock' = FREE
          /\ UNCHANGED total
     ELSE /\ at' = [at EXCEPT ![d] = "truncate"]
          /\ total' = [total EXCEPT ![d] = used + asked[d]]
          /\ UNCHANGED lock
  /\ UNCHANGED <<counter, asked, tries, charged>>

(* An empty file is not a number, and the lock goes with the error.        *)
ReadTotal(d) ==
  LET used == IF counter = ABSENT THEN 0 ELSE counter IN
  /\ at[d] = "read"
  /\ IF counter = EMPTY \/ used + asked[d] > MAX_STREAM_BYTES
     THEN /\ at' = [at EXCEPT ![d] = "refused"]
          /\ lock' = FREE
          /\ UNCHANGED total
     ELSE /\ at' = [at EXCEPT ![d] = "truncate"]
          /\ total' = [total EXCEPT ![d] = used + asked[d]]
          /\ UNCHANGED lock
  /\ UNCHANGED <<counter, asked, tries, charged>>

Truncate(d) ==
  /\ at[d] = "truncate"
  /\ counter' = EMPTY
  /\ at' = [at EXCEPT ![d] = "write"]
  /\ UNCHANGED <<lock, asked, tries, total, charged>>

WriteTotal(d) ==
  /\ at[d] = "write"
  /\ counter' = total[d]
  /\ at' = [at EXCEPT ![d] = "sync"]
  /\ UNCHANGED <<lock, asked, tries, total, charged>>

Grant(d) ==
  /\ at[d] = "sync"
  /\ lock' = FREE
  /\ at' = [at EXCEPT ![d] = "granted"]
  /\ charged' = charged + asked[d]
  /\ UNCHANGED <<counter, asked, tries, total>>

(* An I/O error, or a file that is not the private one it was.  The lock   *)
(* is removed when the call returns, by nobody else.                       *)
Fail(d) ==
  /\ at[d] \in Critical \union {"try"}
  /\ at' = [at EXCEPT ![d] = "refused"]
  /\ lock' = IF at[d] = "try" THEN lock ELSE FREE
  /\ UNCHANGED <<counter, asked, tries, total, charged>>

Return(d) ==
  /\ at[d] \in {"granted", "refused"}
  /\ at' = [at EXCEPT ![d] = "idle"]
  /\ asked' = [asked EXCEPT ![d] = 0]
  /\ tries' = [tries EXCEPT ![d] = 0]
  /\ total' = [total EXCEPT ![d] = 0]
  /\ UNCHANGED <<lock, counter, charged>>

(* The lock directory of a driver that is killed stays.                    *)
Kill(d) ==
  /\ at[d] # "dead"
  /\ at' = [at EXCEPT ![d] = "dead"]
  /\ UNCHANGED <<lock, counter, asked, tries, total, charged>>

CallStep(d) ==
  TakeLock(d) \/ LockBusy(d) \/ ReadTotal(d) \/ Truncate(d) \/ WriteTotal(d) \/ Grant(d)

NextBudget ==
  \E d \in Drivers :
    \/ CallStep(d) \/ Fail(d) \/ Return(d) \/ Kill(d)
    \/ \E bytes \in Requests : Reserve(d, bytes)

SpecBudget == InitBudget /\ [][NextBudget]_budgetVars

-----------------------------------------------------------------------------
BudgetTypeOK ==
  /\ lock \in Drivers \union {FREE}
  /\ counter \in Nat \union {ABSENT, EMPTY}
  /\ at \in [Drivers -> Steps]
  /\ asked \in [Drivers -> Nat] /\ tries \in [Drivers -> Nat] /\ total \in [Drivers -> Nat]
  /\ charged \in Nat

(* The counter is read and rewritten by one driver at a time.              *)
MutualExclusion ==
  \A d, e \in Drivers : at[d] \in Critical /\ at[e] \in Critical => d = e

(* "The counter spans all compiler callbacks in this extraction            *)
(* directory": the drivers together never get more than the limit, and no  *)
(* total that is on disk forgets bytes that were granted, whatever failed  *)
(* or was killed in the middle of an update.                               *)
NothingForgotten ==
  /\ charged <= MAX_STREAM_BYTES
  /\ counter = ABSENT => charged = 0
  /\ counter \in Nat => charged <= counter /\ counter <= MAX_STREAM_BYTES

(* An update that was interrupted, by an error between emptying the file   *)
(* and writing it or by the death of the lock's owner, closes the budget:  *)
(* from then on no driver is granted a byte.                               *)
Closed ==
  \/ lock # FREE /\ at[lock] = "dead"
  \/ counter = EMPTY /\ \A d \in Drivers : at[d] # "write"

InterruptedStaysClosed == [][Closed => Closed' /\ charged' = charged]_budgetVars
=============================================================================
