------------------------------- MODULE DbPool -------------------------------
(***************************************************************************)
(* The pool of MySQL connections of a ChatServer (MySqlPool) or of         *)
(* GateServer (MysqlPool).  Handler threads borrow connections; one        *)
(* thread probes the idle ones every minute and replaces the broken ones.  *)
(*                                                                         *)
(* A step is one critical section of the pool's mutex, with the            *)
(* notification that ends it, or one connection attempt.  Constructing     *)
(* and closing the pool are left out.                                      *)
(***************************************************************************)
EXTENDS Integers, FiniteSets, SequencesExt

CONSTANTS
  Programs,   \* the programs looked at, of "chat" and "gate"
  Caller,     \* threads that call MysqlDao
  Nests,      \* "chat": callers of GetFriendList, which calls GetUser
  Leaks,      \* "gate": callers of CheckEmail
  Conn,       \* connections; one that is closed may be opened again
  First,      \* those the constructor opens
  None,       \* no connection
  MaxCalls,   \* bound: the calls each thread makes
  MaxFriends, \* bound: rows of a friend list
  MaxFaults   \* bound: losses of one connection or of all

ASSUME PoolAssumption ==
  /\ Programs \subseteq {"chat", "gate"}
  /\ Nests \subseteq Caller /\ Leaks \subseteq Caller
  /\ IsFiniteSet(Caller) /\ IsFiniteSet(Conn) /\ None \notin Conn
  /\ First \subseteq Conn
  /\ MaxCalls \in [Caller -> Nat]
  /\ MaxFriends \in Nat /\ MaxFaults \in Nat

(* poolSize.                                                               *)
Size == Cardinality(First)

VARIABLES
  program,       \* which pool this is; never changes
  pool,          \* pool_, the idle connections
  failCount,     \* _fail_count
  pc,            \* where a caller is
  outer, inner,  \* the connections a caller has borrowed
  calls,         \* calls a caller has still to make
  friends,       \* rows GetFriendList has still to read
  checker,       \* where the checking thread is
  hand,          \* the connection it probes
  todo,          \* targetCount - processed
  fresh,         \* connections used less than 5 s before its pass began
  broken,        \* connections that MySQL or the network has closed
  up,            \* MySQL accepts connections
  faults

callerVars == <<pc, outer, inner, calls, friends>>
checkVars == <<checker, hand, todo>>
mysqlVars == <<broken, up, faults>>
vars == <<program, pool, failCount, callerVars, checkVars, fresh, mysqlVars>>

Held == {outer[c] : c \in Caller} \cup {inner[c] : c \in Caller}

(* The connections that exist.                                             *)
Live == ToSet(pool) \cup ((Held \cup {hand}) \ {None})

PcSet == {"out", "lock", "asleep", "late", "relock", "using"}

TypeOK ==
  /\ program \in Programs
  /\ pool \in Seq(Conn) /\ failCount \in Nat
  /\ pc \in [Caller -> PcSet]
  /\ outer \in [Caller -> Conn \cup {None}]
  /\ inner \in [Caller -> Conn \cup {None}]
  /\ calls \in [Caller -> Nat] /\ friends \in [Caller -> Nat]
  /\ checker \in {"sleep", "probe", "reopen"}
  /\ hand \in Conn \cup {None} /\ todo \in Nat
  /\ fresh \subseteq Conn
  /\ broken \subseteq Live /\ up \in BOOLEAN /\ faults \in Nat

(* The constructor has opened all connections.  GateServer probes at once. *)
Init ==
  /\ program \in Programs
  /\ pool = SetToSeq(First)
  /\ failCount = 0
  /\ pc = [c \in Caller |-> "out"]
  /\ outer = [c \in Caller |-> None] /\ inner = [c \in Caller |-> None]
  /\ calls = MaxCalls /\ friends = [c \in Caller |-> 0]
  /\ checker = "sleep" /\ hand = None /\ todo = 0
  /\ fresh = IF program = "gate" THEN ToSet(pool) ELSE {}
  /\ broken = {} /\ up = TRUE /\ faults = 0

-----------------------------------------------------------------------------
(* Mutant: nobody is notified.                                             *)
NotifyNobody(at) == pc' = at

(* notify_one wakes one sleeping caller, if there is one.  at is pc after  *)
(* the notifier's own step.                                                *)
NotifyOne(at) ==
  IF \E d \in Caller : at[d] = "asleep"
  THEN \E d \in Caller : at[d] = "asleep" /\ pc' = [at EXCEPT ![d] = "lock"]
  ELSE pc' = at

NewConn == CHOOSE k \in Conn : k \notin Live

(* MySQL is asked for a connection.  Bound: Conn is not used up.           *)
Connects == up /\ Live # Conn

(* The new connection becomes idle; nobody is notified.                    *)
Opened == pool' = Append(pool, NewConn)

-----------------------------------------------------------------------------
(* The callers.                                                            *)

Call(c) ==
  /\ pc[c] = "out" /\ calls[c] > 0
  /\ pc' = [pc EXCEPT ![c] = "lock"]
  /\ calls' = [calls EXCEPT ![c] = @ - 1]
  /\ UNCHANGED <<program, pool, failCount, outer, inner, friends, checkVars,
                 fresh, mysqlVars>>

(* At a deadline wait_for tests its predicate once more.                   *)
MayTake(c) == pc[c] \in {"lock", "relock"} \/ (pc[c] = "asleep" /\ program = "gate")

(* Mutant: every function of the pool's user nests.                        *)
EveryoneReads(c) == IF program = "chat" THEN 0 .. MaxFriends ELSE {0}

(* The rows a caller finds with its first connection.                      *)
Rows(c) == IF program = "chat" /\ c \in Nests THEN 0 .. MaxFriends ELSE {0}

(* getConnection with an idle connection.                                  *)
Take(c) ==
  /\ MayTake(c) /\ pool # <<>>
  /\ pool' = Tail(pool)
  /\ pc' = [pc EXCEPT ![c] = "using"]
  /\ \/ /\ outer[c] = None
        /\ outer' = [outer EXCEPT ![c] = Head(pool)]
        /\ \E n \in Rows(c) : friends' = [friends EXCEPT ![c] = n]
        /\ UNCHANGED inner
     \/ /\ outer[c] # None
        /\ inner' = [inner EXCEPT ![c] = Head(pool)]
        /\ UNCHANGED <<outer, friends>>
  /\ UNCHANGED <<program, failCount, calls, checkVars, fresh, mysqlVars>>

Wait(c) ==
  /\ pc[c] = "lock" /\ pool = <<>>
  /\ pc' = [pc EXCEPT ![c] = "asleep"]
  /\ UNCHANGED <<program, pool, failCount, outer, inner, calls, friends,
                 checkVars, fresh, mysqlVars>>

(* A wait may end without a notification.                                  *)
SpuriousWakeup(c) ==
  /\ pc[c] = "asleep"
  /\ pc' = [pc EXCEPT ![c] = "lock"]
  /\ UNCHANGED <<program, pool, failCount, outer, inner, calls, friends,
                 checkVars, fresh, mysqlVars>>

(* GateServer waits for 3 s, then the caller opens a connection itself,    *)
(* outside the mutex.                                                      *)
Timeout(c) ==
  /\ program = "gate" /\ pc[c] = "asleep" /\ pool = <<>>
  /\ pc' = [pc EXCEPT ![c] = "late"]
  /\ UNCHANGED <<program, pool, failCount, outer, inner, calls, friends,
                 checkVars, fresh, mysqlVars>>

LateOpen(c) ==
  /\ pc[c] = "late"
  /\ pc' = [pc EXCEPT ![c] = "relock"]
  /\ IF Connects
     THEN Opened /\ fresh' = fresh \cup {NewConn}
     ELSE UNCHANGED <<pool, fresh>>
  /\ UNCHANGED <<program, failCount, outer, inner, calls, friends, checkVars,
                 mysqlVars>>

(* There is no connection, or another caller has taken it: nullptr.        *)
GiveUp(c) ==
  /\ pc[c] = "relock" /\ pool = <<>>
  /\ pc' = [pc EXCEPT ![c] = "out"]
  /\ UNCHANGED <<program, pool, failCount, outer, inner, calls, friends,
                 checkVars, fresh, mysqlVars>>

(* GetFriendList calls GetUser for a row.                                  *)
GetUser(c) ==
  /\ pc[c] = "using" /\ inner[c] = None /\ friends[c] > 0
  /\ pc' = [pc EXCEPT ![c] = "lock"]
  /\ friends' = [friends EXCEPT ![c] = @ - 1]
  /\ UNCHANGED <<program, pool, failCount, outer, inner, calls, checkVars,
                 fresh, mysqlVars>>

(* Mutant: returned by hand and again at the end of the scope.             *)
PushedTwice(k) == pool' = pool \o <<k, None>>

Pushed(k) == pool' = Append(pool, k)

(* returnConnection, of GetUser.                                           *)
ReturnInner(c) ==
  /\ pc[c] = "using" /\ inner[c] # None
  /\ Pushed(inner[c])
  /\ inner' = [inner EXCEPT ![c] = None]
  /\ NotifyOne(pc)
  /\ UNCHANGED <<program, failCount, outer, calls, friends, checkVars, fresh,
                 mysqlVars>>

(* returnConnection, of the call.  A broken connection goes back too.      *)
Return(c) ==
  /\ pc[c] = "using" /\ inner[c] = None /\ friends[c] = 0
  /\ Pushed(outer[c])
  /\ outer' = [outer EXCEPT ![c] = None]
  /\ NotifyOne([pc EXCEPT ![c] = "out"])
  /\ UNCHANGED <<program, failCount, inner, calls, friends, checkVars, fresh,
                 mysqlVars>>

(* CheckEmail finds no user: its connection is destroyed.                  *)
Leak(c) ==
  /\ program = "gate" /\ c \in Leaks /\ pc[c] = "using"
  /\ outer' = [outer EXCEPT ![c] = None]
  /\ broken' = broken \ {outer[c]}
  /\ fresh' = fresh \ {outer[c]}
  /\ pc' = [pc EXCEPT ![c] = "out"]
  /\ UNCHANGED <<program, pool, failCount, inner, calls, friends, checkVars,
                 up, faults>>

-----------------------------------------------------------------------------
(* The checking thread (checkConnectionPro).                               *)

(* A minute later only connections that callers opened may be fresh.       *)
StartPass ==
  /\ checker = "sleep"
  /\ checker' = "probe" /\ todo' = Len(pool)
  /\ fresh' \in SUBSET fresh
  /\ UNCHANGED <<program, pool, failCount, callerVars, hand, mysqlVars>>

Pop ==
  /\ checker = "probe" /\ hand = None /\ todo > 0 /\ pool # <<>>
  /\ hand' = Head(pool) /\ pool' = Tail(pool)
  /\ UNCHANGED <<program, failCount, callerVars, checker, todo, fresh, mysqlVars>>

Healthy == hand \in fresh \/ hand \notin broken

ProbeSucceeds ==
  /\ hand # None /\ Healthy
  /\ Pushed(hand)
  /\ NotifyOne(pc)
  /\ fresh' = fresh \cup {hand}
  /\ hand' = None /\ todo' = todo - 1
  /\ UNCHANGED <<program, failCount, outer, inner, calls, friends, checker,
                 mysqlVars>>

(* Mutant: the failed connection is not counted.                           *)
FailUncounted == failCount' = failCount

FailCounted == failCount' = failCount + 1

ProbeFails ==
  /\ hand # None /\ ~Healthy
  /\ FailCounted
  /\ broken' = broken \ {hand}
  /\ hand' = None /\ todo' = todo - 1
  /\ UNCHANGED <<program, pool, callerVars, checker, fresh, up, faults>>

ProbesDone ==
  /\ checker = "probe" /\ hand = None /\ (todo = 0 \/ pool = <<>>)
  /\ checker' = "reopen"
  /\ UNCHANGED <<program, pool, failCount, callerVars, hand, todo, fresh, mysqlVars>>

(* Mutant: a connection that was reopened is still counted.                *)
ReopenUncounted == failCount' = failCount

ReopenCounted == failCount' = failCount - 1

Reopen ==
  /\ checker = "reopen" /\ failCount > 0 /\ Connects
  /\ Opened
  /\ ReopenCounted
  /\ UNCHANGED <<program, callerVars, checkVars, fresh, mysqlVars>>

EndPass ==
  /\ checker = "reopen" /\ (failCount = 0 \/ ~Connects)
  /\ checker' = "sleep" /\ todo' = 0 /\ fresh' = {}
  /\ UNCHANGED <<program, pool, failCount, callerVars, hand, mysqlVars>>

-----------------------------------------------------------------------------
(* MySQL and the network.                                                  *)

Break(k) ==
  /\ faults < MaxFaults /\ k \in Live \ broken
  /\ broken' = broken \cup {k} /\ faults' = faults + 1
  /\ UNCHANGED <<program, pool, failCount, callerVars, checkVars, fresh, up>>

Outage ==
  /\ faults < MaxFaults /\ up
  /\ up' = FALSE /\ broken' = Live /\ faults' = faults + 1
  /\ UNCHANGED <<program, pool, failCount, callerVars, checkVars, fresh>>

Recover ==
  /\ ~up /\ up' = TRUE
  /\ UNCHANGED <<program, pool, failCount, callerVars, checkVars, fresh, broken, faults>>

-----------------------------------------------------------------------------
GoOn(c) ==
  \/ Take(c) \/ Wait(c)
  \/ Timeout(c) \/ LateOpen(c) \/ GiveUp(c)
  \/ GetUser(c) \/ ReturnInner(c) \/ Return(c) \/ Leak(c)

CheckerStep ==
  \/ StartPass \/ Pop \/ ProbeSucceeds \/ ProbeFails \/ ProbesDone
  \/ Reopen \/ EndPass

Next ==
  \/ \E c \in Caller : Call(c) \/ GoOn(c) \/ SpuriousWakeup(c)
  \/ CheckerStep
  \/ \E k \in Conn : Break(k)
  \/ Outage \/ Recover

Spec == Init /\ [][Next]_vars

(* Threads run, minutes pass, and MySQL comes back.  A caller that is      *)
(* awake again and again wins the mutex some time when a connection is     *)
(* idle, and its deadline passes however often its wait is resumed.        *)
(* Calls, faults and spurious wakeups owe nothing.                         *)
FairSpec ==
  /\ Spec
  /\ \A c \in Caller : WF_vars(GoOn(c)) /\ SF_vars(Take(c) \/ Timeout(c))
  /\ WF_vars(CheckerStep)
  /\ WF_vars(Recover)

-----------------------------------------------------------------------------
(* A ChatServer loses no connection: what is not open has been counted for *)
(* the checking thread to reopen (getConnection, returnConnection,         *)
(* checkConnectionPro).                                                    *)
Conserved ==
  program = "chat" => Cardinality(Live) + failCount = Size

(* A caller that sleeps while it holds a connection.                       *)
HoldsAndWaits(c) == pc[c] = "asleep" /\ outer[c] # None

(* While fewer callers nest than the pool has connections, some connection *)
(* is idle, probed, to be reopened, or held by a caller that is not        *)
(* waiting for another: GetFriendList alone cannot stop the pool.          *)
NoStandstill ==
  program = "chat" /\ Cardinality(Nests) < Size =>
    \/ failCount > 0
    \/ \E k \in Live : \A c \in Caller : HoldsAndWaits(c) => outer[c] # k

(* GateServer opens connections at timeouts and loses some in CheckEmail.  *)
(* Without faults it has at most Size, or one for each caller and for the  *)
(* checking thread; each fault may add as many again, for a connection     *)
(* that failed its probe is replaced by late callers and then reopened     *)
(* (getConnection, CheckConnectionPro).                                    *)
Demand == IF Cardinality(Caller) + 1 > Size THEN Cardinality(Caller) + 1 ELSE Size

GrowthBounded ==
  program = "gate" => Cardinality(Live) + failCount <= Demand * (faults + 1)

(* Every call of MysqlDao ends: no wakeup is lost for good, though         *)
(* reconnect notifies nobody, and GateServer serves its callers although   *)
(* CheckEmail takes connections away.                                      *)
CallEnds == \A c \in Caller : pc[c] = "lock" ~> pc[c] = "out"

(* README.md, section 5.4: borrowing and returning are RAII, so that every *)
(* connection is returned.                                                 *)
LoanReturned == \A c \in Caller : outer[c] # None ~> outer[c] = None

Loans == INSTANCE Lending
  WITH idle <- ToSet(pool),
       lent <- [c \in Caller |-> {outer[c], inner[c]} \ {None}],
       probed <- {hand} \ {None}

(* The pool lends as Lending promises: a connection is never with two      *)
(* threads, nor idle while one uses it, although it is taken and returned  *)
(* under the mutex but used, probed and opened outside it (getConnection,  *)
(* returnConnection, checkConnectionPro).                                  *)
LendingSpec == Loans!Spec
=============================================================================
