--------------------------- MODULE RwSignalProofs ---------------------------
(* SignalExact for any number of threads that all take one role. *)
EXTENDS RwSignal, FiniteSetTheorems, TLAPS

\* Every thread takes the role r and no other.
OneRole(r) == \A t \in Threads : Roles[t] \subseteq {r}

\* Inside the functions a thread has the role it called with.
IInv(r) ==
    /\ TypeOK
    /\ \A t \in Threads : step[t] # "idle" => role[t] = r
    /\ SignalExact

\* The threads that hold a role are finitely many, so they can be counted.
LEMMA HoldingFinite ==
    ASSUME NEW r
    PROVE  IsFiniteSet(Holding(r)) /\ Cardinality(Holding(r)) \in Nat
  <1>1. Holding(r) \subseteq Threads  BY DEF Holding
  <1>2. IsFiniteSet(Holding(r))  BY <1>1, ThreadsAssumption, FS_Subset
  <1> QED  BY <1>2, FS_CardinalityType

\* Initially nobody holds and the signal is 0.
LEMMA InitExact ==
    ASSUME NEW r, Init
    PROVE  IInv(r)
  <1>1. Holding(Reader) = {} /\ Holding(Writer) = {}  BY DEF Holding, Init
  <1>2. SignalExact  BY <1>1, FS_EmptySet DEF SignalExact, Init
  <1>3. TypeOK  BY RoundsAssumption DEF Init, TypeOK, Reader, Writer, Nobody
  <1> QED  BY <1>2, <1>3 DEF IInv, Init

\* One step of one thread keeps the invariant (LockTest, LockFetch,
\* UnlockTest and UnlockFetch, in turn).
LEMMA StepExact ==
    ASSUME NEW r \in {Reader, Writer}, OneRole(r), IInv(r), [Next]_vars
    PROVE  IInv(r)'
  <1> DEFINE o == IF r = Reader THEN Writer ELSE Reader
  <1> USE DEF Reader, Writer, Nobody
  <1>ty. TypeOK /\ (\A t \in Threads : step[t] # "idle" => role[t] = r) /\ SignalExact
    BY DEF IInv
  <1>em. Holding(o) = {}  BY <1>ty DEF Holding, TypeOK
  <1>fin. /\ IsFiniteSet(Holding(r))
          /\ Cardinality(Holding(r)) \in Nat
    BY HoldingFinite
  <1>sig. signal_int = r * Cardinality(Holding(r))
    <2>1. Cardinality(Holding(o)) = 0  BY <1>em, FS_EmptySet
    <2>2. CASE r = 1  BY <2>1, <2>2, <1>ty, <1>fin DEF SignalExact
    <2>3. CASE r = -1  BY <2>1, <2>3, <1>ty, <1>fin DEF SignalExact
    <2> QED  BY <2>2, <2>3
  \* It is enough to say what happens to the threads that hold r.
  <1>suf. ASSUME TypeOK', \A t \in Threads : step'[t] # "idle" => role'[t] = r,
                 signal_int' = r * Cardinality(Holding(r)')
          PROVE  IInv(r)'
    <2>1. Holding(o)' = {}  BY <1>suf DEF Holding, TypeOK
    <2>2. Cardinality(Holding(o)') = 0  BY <2>1, FS_EmptySet
    <2>3. Holding(r)' \subseteq Threads  BY DEF Holding
    <2>4. Cardinality(Holding(r)') \in Nat
      BY <2>3, ThreadsAssumption, FS_Subset, FS_CardinalityType
    <2>5. SignalExact'
      <3>1. CASE r = 1  BY <3>1, <2>2, <2>4, <1>suf DEF SignalExact
      <3>2. CASE r = -1  BY <3>2, <2>2, <2>4, <1>suf DEF SignalExact
      <3> QED  BY <3>1, <3>2
    <2> QED  BY <2>5, <1>suf DEF IInv
  <1>st. CASE UNCHANGED vars
    <2>1. Holding(r)' = Holding(r)  BY <1>st DEF vars, Holding
    <2>2. TypeOK'  BY <1>st, <1>ty DEF vars, TypeOK
    <2> QED  BY <2>1, <2>2, <1>st, <1>ty, <1>sig, <1>suf DEF vars
  <1>nx. CASE Next
    <2> PICK t \in Threads : Enter(t) \/ Advance(t)  BY <1>nx DEF Next
    <2>1. CASE Enter(t)
      <3>0. LockTest(t, r)  BY <2>1 DEF Enter, OneRole
      <3>1. Holding(r)' = Holding(r)  BY <3>0, <1>ty DEF LockTest, Holding, TypeOK
      <3>2. rounds' \in [Threads -> 0 .. Rounds]
        BY <2>1, <1>ty, RoundsAssumption DEF Enter, TypeOK
      <3>3. TypeOK'  BY <3>0, <3>2, <1>ty DEF LockTest, TypeOK
      <3>4. \A u \in Threads : step'[u] # "idle" => role'[u] = r
        BY <3>0, <1>ty DEF LockTest, TypeOK
      <3>5. signal_int' = r * Cardinality(Holding(r)')  BY <3>0, <3>1, <1>sig DEF LockTest
      <3> QED  BY <3>3, <3>4, <3>5, <1>suf
    <2>a. Advance(t) => UNCHANGED rounds  BY DEF Advance
    <2>3. CASE Advance(t) /\ LockFetch(t)
      <3>0. role[t] = r /\ t \notin Holding(r)  BY <2>3, <1>ty DEF LockFetch, Holding
      <3>1. Holding(r)' = Holding(r) \cup {t}
        BY <2>3, <3>0, <1>ty DEF LockFetch, Holding, TypeOK
      <3>2. Cardinality(Holding(r)') = Cardinality(Holding(r)) + 1
        BY <3>0, <3>1, <1>fin, FS_AddElement
      <3>3. TypeOK'  BY <2>a, <2>3, <1>ty DEF LockFetch, TypeOK
      <3>4. \A u \in Threads : step'[u] # "idle" => role'[u] = r
        BY <2>3, <1>ty DEF LockFetch, TypeOK
      <3>s. signal_int' = signal_int + r  BY <2>3, <3>0 DEF LockFetch
      <3>5. signal_int' = r * Cardinality(Holding(r)')
        <4>1. CASE r = 1  BY <4>1, <3>2, <3>s, <1>sig, <1>fin
        <4>2. CASE r = -1  BY <4>2, <3>2, <3>s, <1>sig, <1>fin
        <4> QED  BY <4>1, <4>2
      <3> QED  BY <3>3, <3>4, <3>5, <1>suf
    <2>4. CASE Advance(t) /\ UnlockTest(t)
      <3>0. role[t] = r /\ t \in Holding(r)  BY <2>4, <1>ty DEF UnlockTest, Holding
      <3>1. Cardinality(Holding(r)) # 0  BY <3>0, <1>fin, FS_EmptySet
      \* The holder itself makes the sign its own: the unlock is never skipped.
      <3>2. role[t] * signal_int > 0
        <4>1. CASE r = 1  BY <4>1, <3>0, <3>1, <1>sig, <1>fin
        <4>2. CASE r = -1  BY <4>2, <3>0, <3>1, <1>sig, <1>fin
        <4> QED  BY <4>1, <4>2
      <3>6. step' = [step EXCEPT ![t] = "leave"] /\ role' = role  BY <2>4, <3>2 DEF UnlockTest
      <3>7. Holding(r)' = Holding(r)
        BY <2>4, <3>0, <3>6, <1>ty DEF UnlockTest, Holding, TypeOK
      <3>3. TypeOK'  BY <2>a, <2>4, <3>6, <1>ty DEF UnlockTest, TypeOK
      <3>4. \A u \in Threads : step'[u] # "idle" => role'[u] = r
        BY <2>4, <3>0, <3>6, <1>ty DEF UnlockTest, TypeOK
      <3>5. signal_int' = r * Cardinality(Holding(r)')  BY <3>7, <1>sig, <2>4 DEF UnlockTest
      <3> QED  BY <3>3, <3>4, <3>5, <1>suf
    <2>5. CASE Advance(t) /\ UnlockFetch(t)
      <3>0. role[t] = r /\ t \in Holding(r)  BY <2>5, <1>ty DEF UnlockFetch, Holding
      <3>1. Holding(r)' = Holding(r) \ {t}
        BY <2>5, <3>0, <1>ty DEF UnlockFetch, Leave, Holding, TypeOK
      <3>2. Cardinality(Holding(r)') = Cardinality(Holding(r)) - 1
        BY <3>0, <3>1, <1>fin, FS_RemoveElement
      <3>3. TypeOK'  BY <2>a, <2>5, <1>ty DEF UnlockFetch, Leave, TypeOK
      <3>4. \A u \in Threads : step'[u] # "idle" => role'[u] = r
        BY <2>5, <1>ty DEF UnlockFetch, Leave, TypeOK
      <3>s. signal_int' = signal_int - r  BY <2>5, <3>0 DEF UnlockFetch
      <3>5. signal_int' = r * Cardinality(Holding(r)')
        <4>1. CASE r = 1  BY <4>1, <3>2, <3>s, <1>sig, <1>fin
        <4>2. CASE r = -1  BY <4>2, <3>2, <3>s, <1>sig, <1>fin
        <4> QED  BY <4>1, <4>2
      <3> QED  BY <3>3, <3>4, <3>5, <1>suf
    <2> QED  BY <2>1, <2>3, <2>4, <2>5 DEF Advance
  <1> QED  BY <1>st, <1>nx

\* With threads of one role, any number of them, the signal counts the threads
\* inside: rw_r_unlock and rw_w_unlock never skip their fetch.
THEOREM SignalExactAlways ==
    ASSUME NEW r \in {Reader, Writer}, OneRole(r)
    PROVE  Spec => []SignalExact
  <1>1. Init => IInv(r)  BY InitExact
  <1>2. IInv(r) /\ [Next]_vars => IInv(r)'  BY StepExact
  <1>3. IInv(r) => SignalExact  BY DEF IInv
  <1> QED  BY <1>1, <1>2, <1>3, PTL DEF Spec
=============================================================================
