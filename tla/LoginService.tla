---------------------------- MODULE LoginService ----------------------------
(***************************************************************************)
(* Logins (http/http_conn.cpp, do_request) that worker threads handle at   *)
(* the same time: jobs of the ThreadPool, which look at and change the     *)
(* records of the LoginGuard in several steps, each with a lock of its     *)
(* own, and write a line to the AsyncLog.                                  *)
(***************************************************************************)
EXTENDS ThreadPool, LoginGuard, AsyncLog

CONSTANTS Addresses, Names

\* The two kinds of keys have prefixes of their own.
ASSUME LoginServiceAssumption == Addresses \cup Names = Keys /\ Addresses \cap Names = {}

VARIABLES
  at,      \* where the attempt of each worker is
  recent,  \* history: the ages of a key's failures since it was cleared or blocked, youngest
           \* first, MaxCount - 1 at most
  late     \* history: attempts that had looked at a key before it was blocked

attemptVars == <<at, recent, late>>
vars == <<poolVars, records, logVars, attemptVars>>

Attempts == [address : Addresses, name : Names, right : BOOLEAN]

Init ==
  /\ PoolInit /\ GuardInit /\ LogInit
  /\ at = [w \in Workers |-> "out"]
  /\ recent = [k \in Keys |-> <<>>] /\ late = [k \in Keys |-> {}]

Goto(w, place) == at' = [at EXCEPT ![w] = place]
At(w, place) == thread[w] = "run" /\ at[w] = place

-----------------------------------------------------------------------------
(* The pool.                                                               *)
Request ==
  /\ \E r \in Reactors, a \in Attempts : Append_p(r, a)
  /\ UNCHANGED <<records, logVars, attemptVars>>

Announce == (\E r \in Reactors : Post(r)) /\ UNCHANGED <<records, logVars, attemptVars>>

Wake(w) == WaitForTask(w) /\ UNCHANGED <<records, logVars, attemptVars>>

Begin(w) ==
  /\ TakeTask(w)
  /\ Goto(w, IF workqueue = <<>> THEN "out" ELSE "askAddress")
  /\ late' = [k \in Keys |-> late[k] \ {w}]
  /\ UNCHANGED <<records, logVars, recent>>

End(w) == Goto(w, "out") /\ TaskDone(w)

-----------------------------------------------------------------------------
(* An attempt.                                                             *)

\* Mutant: a block of the address is overlooked.
OnlyName(w, key) == key = "name" /\ IsBlocked(task[w].name)
Refused(w, key) == IsBlocked(task[w][key])

\* is_login_blocked(address) || is_login_blocked(name), before the password is looked
\* at and, for the choice of the page, after a failure.
AskAddress(w) ==
  /\ At(w, "askAddress") /\ LookUp(task[w].address)
  /\ Goto(w, IF Refused(w, "address") THEN "logRefused" ELSE "askName")
  /\ UNCHANGED <<poolVars, logVars, recent, late>>

AskName(w) ==
  /\ At(w, "askName") /\ LookUp(task[w].name)
  /\ Goto(w, IF Refused(w, "name") THEN "logRefused" ELSE "verify")
  /\ UNCHANGED <<poolVars, logVars, recent, late>>

AskAddressAgain(w) ==
  /\ At(w, "askAddressAgain") /\ LookUp(task[w].address)
  /\ IF IsBlocked(task[w].address) THEN End(w) ELSE Goto(w, "askNameAgain") /\ UNCHANGED poolVars
  /\ UNCHANGED <<logVars, recent, late>>

AskNameAgain(w) ==
  At(w, "askNameAgain") /\ LookUp(task[w].name) /\ End(w) /\ UNCHANGED <<logVars, recent, late>>

Verify(w) ==
  /\ At(w, "verify")
  /\ Goto(w, IF task[w].right THEN "clearAddress" ELSE "failAddress")
  /\ UNCHANGED <<poolVars, records, logVars, recent, late>>

Clear(w, place, k) ==
  /\ At(w, place) /\ ClearFail(k)
  /\ recent' = [recent EXCEPT ![k] = <<>>]
  /\ UNCHANGED <<logVars, late>>

ClearAddress(w) ==
  Clear(w, "clearAddress", task[w].address) /\ Goto(w, "clearName") /\ UNCHANGED poolVars
ClearName(w) == Clear(w, "clearName", task[w].name) /\ End(w)

\* Attempts that have looked at a key and may still change its record.
Beyond(v, k) ==
  /\ thread[v] = "run"
  /\ \/ /\ task[v].address = k
        /\ at[v] \in {"askName", "verify", "clearAddress", "failAddress"}
     \/ /\ task[v].name = k
        /\ at[v] \in {"verify", "clearAddress", "clearName", "failAddress", "failName"}

Youngest(ages) == SubSeq(ages, 1, IF Len(ages) < MaxCount THEN Len(ages) ELSE MaxCount - 1)

\* The block of k begins, or begins anew.
Blocks(k) == records'[k].until = BlockTicks

Fail(w, place, k) ==
  /\ At(w, place) /\ RecordFail(k)
  /\ recent' = [recent EXCEPT ![k] = IF Blocks(k) THEN <<>> ELSE Youngest(<<0>> \o @)]
  /\ late' = [late EXCEPT ![k] = IF Blocks(k) THEN {v \in Workers \ {w} : Beyond(v, k)} ELSE @]
  /\ UNCHANGED <<poolVars, logVars>>

FailAddress(w) == Fail(w, "failAddress", task[w].address) /\ Goto(w, "failName")
FailName(w) == Fail(w, "failName", task[w].name) /\ Goto(w, "logFailed")

-----------------------------------------------------------------------------
(* LOG_INFO: into the queue, unless it was full; then straight into the    *)
(* file.                                                                   *)
Logged(w, refused) ==
  IF refused THEN End(w) ELSE Goto(w, "askAddressAgain") /\ UNCHANGED poolVars

TestFull(w, refused) ==
  /\ At(w, IF refused THEN "logRefused" ELSE "logFailed")
  /\ IF Full THEN Logged(w, refused)
     ELSE Goto(w, IF refused THEN "pushRefused" ELSE "pushFailed") /\ UNCHANGED poolVars
  /\ UNCHANGED <<records, logVars, recent, late>>

Push(w, refused) ==
  /\ At(w, IF refused THEN "pushRefused" ELSE "pushFailed")
  /\ PushLine(w) /\ Logged(w, refused)
  /\ UNCHANGED <<records, recent, late>>

LogThread == PopLine /\ UNCHANGED <<poolVars, records, attemptVars>>

-----------------------------------------------------------------------------
Tick ==
  /\ GuardTick
  /\ recent' = [k \in Keys |-> [i \in DOMAIN recent[k] |->
                                  IF recent[k][i] > Window THEN recent[k][i] ELSE recent[k][i] + 1]]
  /\ UNCHANGED <<poolVars, logVars, at, late>>

Attempt(w) ==
  \/ AskAddress(w) \/ AskName(w) \/ Verify(w) \/ ClearAddress(w) \/ ClearName(w)
  \/ FailAddress(w) \/ FailName(w) \/ AskAddressAgain(w) \/ AskNameAgain(w)
  \/ \E refused \in BOOLEAN : TestFull(w, refused) \/ Push(w, refused)

Next ==
  \/ Request \/ Announce \/ LogThread \/ Tick
  \/ \E w \in Workers : Wake(w) \/ Begin(w) \/ Attempt(w)

Spec == Init /\ [][Next]_vars

-----------------------------------------------------------------------------
\* A block begins, or begins anew, only at a key that has MaxCount failures, the
\* oldest of them in the window, since its last success or block, whatever the order
\* in which attempts looked at the key and recorded their failures.
FreezeIsEarned ==
  [][\A k \in Keys :
       /\ records'[k] # NoRecord /\ records'[k].until = BlockTicks
       /\ records[k] = NoRecord \/ records[k].until # BlockTicks
       => /\ Len(recent[k]) = MaxCount - 1
          /\ \A i \in DOMAIN recent[k] : recent[k][i] <= Window]_vars

\* A block ends with its time.  Only an attempt that had looked at the key before the
\* block began can end it earlier; one that comes later never reaches the record.
FreezeSurvivesNewAttempts ==
  [][\A k \in Keys :
       IsBlocked(k) /\ ~IsBlocked(k)' => GuardTick \/ \E v \in late[k] : at'[v] # at[v]]_vars

\* What the page of a frozen login says: after the failures, no login for the whole
\* time.  No wrong password can end it.
FreezeHolds ==
  [][\A k \in Keys :
       IsBlocked(k) /\ ~IsBlocked(k)'
       => GuardTick \/ \E v \in Workers : at'[v] # at[v] /\ task[v].right]_vars
=============================================================================
