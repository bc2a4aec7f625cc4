------------------------------ MODULE RwSignal ------------------------------
(***************************************************************************)
(* rw_r_lock, rw_w_lock, rw_r_unlock and rw_w_unlock of libevent_handle.cc: *)
(* a reader/writer lock on one atomic int.  Every load and every fetch_add *)
(* or fetch_sub is one atomic step; what lies between a load and the fetch *)
(* that follows it is where other threads run.                             *)
(* The read and the write functions are each other's mirror image, so one  *)
(* set of actions serves both: a role is what the lock adds to the signal. *)
(***************************************************************************)
EXTENDS Integers, FiniteSets

CONSTANTS
    Threads,    \* threads that use one signal
    Roles,      \* thread -> the roles it takes: Reader, Writer or both
    Rounds      \* bound: how often a thread takes the lock

Reader == 1
Writer == -1
Nobody == 0

ASSUME ThreadsAssumption == IsFiniteSet(Threads)
ASSUME RolesAssumption == Roles \in [Threads -> SUBSET {Reader, Writer}]
ASSUME RoundsAssumption == Rounds \in Nat

VARIABLES
    signal_int, \* the atomic int
    step,       \* thread -> where it is in the lock and unlock functions
    role,       \* thread -> role in which it called them, Nobody outside
    rounds      \* thread -> rounds it has started

vars == <<signal_int, step, role, rounds>>

TypeOK ==
    /\ signal_int \in Int
    /\ step \in [Threads -> {"idle", "fetch", "inside", "leave"}]
    /\ role \in [Threads -> {Reader, Writer, Nobody}]
    /\ rounds \in [Threads -> 0 .. Rounds]

Init ==
    /\ signal_int = 0
    /\ step = [t \in Threads |-> "idle"]
    /\ role = [t \in Threads |-> Nobody]
    /\ rounds = [t \in Threads |-> 0]

-----------------------------------------------------------------------------
\* The load that ends the while loop of rw_r_lock or rw_w_lock: no writer for a
\* reader (signal not negative), no reader for a writer (signal not positive).
LockTest(t, r) ==
    /\ step[t] = "idle"
    /\ ~(r * signal_int < 0)
    /\ role' = [role EXCEPT ![t] = r]
    /\ step' = [step EXCEPT ![t] = "fetch"]
    /\ UNCHANGED signal_int

LockFetch(t) ==
    /\ step[t] = "fetch"
    /\ signal_int' = signal_int + role[t]
    /\ step' = [step EXCEPT ![t] = "inside"]
    /\ UNCHANGED role

\* The thread is outside again.
Leave(t) ==
    /\ step' = [step EXCEPT ![t] = "idle"]
    /\ role' = [role EXCEPT ![t] = Nobody]

\* The load of the unlock function; when the sign is not its own, the unlock
\* returns and leaves the signal as it is.
UnlockTest(t) ==
    /\ step[t] = "inside"
    /\ IF role[t] * signal_int > 0
       THEN step' = [step EXCEPT ![t] = "leave"] /\ UNCHANGED role
       ELSE Leave(t)
    /\ UNCHANGED signal_int

\* Mutant of UnlockFetch: the unlock returns without giving its unit back.
UnlockKeepsSignal(t) ==
    /\ step[t] = "leave"
    /\ Leave(t)
    /\ UNCHANGED signal_int

UnlockFetch(t) ==
    /\ step[t] = "leave"
    /\ signal_int' = signal_int - role[t]
    /\ Leave(t)

\* A round: a thread takes the lock in one of its roles ...
Enter(t) ==
    /\ rounds[t] < Rounds
    /\ \E r \in Roles[t] : LockTest(t, r)
    /\ rounds' = [rounds EXCEPT ![t] = @ + 1]

\* ... and gives it back.
Advance(t) ==
    /\ LockFetch(t) \/ UnlockTest(t) \/ UnlockFetch(t)
    /\ UNCHANGED rounds

Next == \E t \in Threads : Enter(t) \/ Advance(t)

Spec == Init /\ [][Next]_vars

-----------------------------------------------------------------------------
Holding(r) == {t \in Threads : step[t] \in {"inside", "leave"} /\ role[t] = r}

\* The signal is the number of readers inside less the number of writers
\* inside: no entry is lost and no unlock is skipped.  It holds when all the
\* threads take one and the same role (write_singal_ptr is only write-locked).
SignalExact ==
    signal_int = Cardinality(Holding(Reader)) - Cardinality(Holding(Writer))

\* "> 0  == reader" (the comment in rw_w_lock): a positive signal means that a
\* reader is inside, so that a writer that spins on it is waiting for someone.
\* One thread that only reads and one that only writes are enough to break it:
\* both pass their load at 0, one unlock finds 0 and skips its fetch, and the
\* other's fetch leaves the signal off zero with nobody inside.
PositiveMeansReader == signal_int > 0 => Holding(Reader) # {}
=============================================================================
