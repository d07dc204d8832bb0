----------------------------- MODULE LoginGuard -----------------------------
(***************************************************************************)
(* The failed logins of an address or a user name (http/http_conn.cpp,     *)
(* login_fail_records), each operation under login_fail_lock.  Of the      *)
(* first failure its age is kept, of a block the ticks that are left.      *)
(***************************************************************************)
EXTENDS Integers

CONSTANTS
  Keys,        \* the addresses and the names
  MaxCount,    \* LOGIN_FAIL_MAX_COUNT
  Window,      \* LOGIN_FAIL_WINDOW_SECONDS, in ticks
  BlockTicks,  \* LOGIN_FAIL_BLOCK_SECONDS, in ticks
  NoRecord

ASSUME LoginGuardAssumption ==
  /\ {MaxCount, Window, BlockTicks} \subseteq Nat \ {0}
  /\ NoRecord \notin [count : Nat, first : Int, until : Int]

VARIABLE records  \* login_fail_records

Unset == -1   \* first_fail_time or blocked_until is 0

GuardInit == records = [k \in Keys |-> NoRecord]

IsBlocked(k) == records[k] # NoRecord /\ records[k].until > 0

\* is_login_blocked erases a record whose block is over.
LookUp(k) ==
  records' = IF records[k] # NoRecord /\ records[k].until = 0
             THEN [records EXCEPT ![k] = NoRecord] ELSE records

\* Mutant: failures count however old the first one is.
NeverStale(record) == record.first = Unset
Stale(record) == record.first = Unset \/ record.first > Window

OneMore(record) ==
  IF Stale(record) THEN [count |-> 1, first |-> 0, until |-> Unset]
  ELSE [record EXCEPT !.count = @ + 1]

Judged(record) ==
  IF record.count >= MaxCount THEN [count |-> 0, first |-> Unset, until |-> BlockTicks]
  ELSE record

RecordFail(k) ==
  LET record == IF records[k] = NoRecord THEN [count |-> 0, first |-> Unset, until |-> Unset]
                ELSE records[k]
  IN  records' = [records EXCEPT ![k] = Judged(OneMore(record))]

ClearFail(k) == records' = [records EXCEPT ![k] = NoRecord]

\* A tick of the clock.
Older(record) ==
  [record EXCEPT !.first = IF @ \in 0..Window THEN @ + 1 ELSE @,
                 !.until = IF @ > 0 THEN @ - 1 ELSE @]
GuardTick ==
  records' = [k \in Keys |-> IF records[k] = NoRecord THEN NoRecord ELSE Older(records[k])]
=============================================================================
