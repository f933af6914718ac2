------------------------- MODULE UploadLimiterProofs -------------------------
(***************************************************************************)
(* The rate limiter bounds a burst and refuses only when it is due: proof, *)
(* for every set of keys, limit and window length.  The admissions of an   *)
(* interval fall into at most two windows, and of the earlier one the      *)
(* request that opened it is missing; so they can be counted by their      *)
(* places, up to twice the limit less one.                                 *)
(***************************************************************************)
EXTENDS UploadLimiter, FiniteSetTheorems, FunctionTheorems, TLAPS

\* An admission lies in its window, and the first of a window opens it.
InWindow(a) ==
  /\ a.since <= a.at /\ a.at <= a.since + Window /\ a.at <= now
  /\ a.place = 1 => a.at = a.since

\* The log holds the admissions of the present window, and of earlier ones that
\* were over when it opened.
Behind(a, r) ==
  /\ a.since = r.since => a.place <= r.count
  /\ a.since # r.since => a.since + Window < r.since

\* The windows of a key do not overlap, and a place is taken once.
Apart(a, b) ==
  a.key = b.key =>
    /\ a.since < b.since => a.since + Window < b.since
    /\ a.since = b.since /\ a.place = b.place => a = b

LogInv ==
  /\ \A k \in Key : store[k].since <= now
  /\ \A a \in log : InWindow(a) /\ Behind(a, store[a.key])
  /\ \A a, b \in log : Apart(a, b)

\* Every place of the present window was taken.
PlacesInv ==
  \A k \in Key : \A p \in 1..store[k].count :
    \E a \in log : a.key = k /\ a.since = store[k].since /\ a.place = p

RefusedInv ==
  \A k \in Key : answer[k] = "refused" => ~Over(k) /\ store[k].count = Limit

LimiterInv == TypeOK /\ IsFiniteSet(log) /\ LogInv /\ PlacesInv /\ RefusedInv

LEMMA LimiterInit == Init => LimiterInv
  <1> SUFFICES ASSUME Init PROVE LimiterInv
    OBVIOUS
  <1> USE DEF Init, NoWindow, Silence
  <1>1. TypeOK
    BY UploadLimiterAssumption DEF TypeOK
  <1>2. IsFiniteSet(log) /\ LogInv /\ RefusedInv
    BY FS_EmptySet DEF LogInv, RefusedInv
  <1>3. PlacesInv
    BY DEF PlacesInv
  <1> QED BY <1>1, <1>2, <1>3 DEF LimiterInv

\* What admitting a request keeps, whether it opens a window or joins one.
LEMMA AdmitKeeps ==
  ASSUME LimiterInv, NEW k \in Key, Open(k) \/ Join(k)
  PROVE  LimiterInv'
  <1> DEFINE c == IF Over(k) THEN 1 ELSE store[k].count + 1
             s == IF Over(k) THEN now ELSE store[k].since
             e == [key |-> k, at |-> now, since |-> s, place |-> c]
  <1> USE UploadLimiterAssumption DEF LimiterInv, TypeOK
  <1>1. /\ c \in 1..Limit /\ s \in Nat /\ s <= now /\ now <= s + Window
        /\ c = 1 => s = now
    BY DEF Open, Join, Over, LogInv
  <1>2. /\ store' = [store EXCEPT ![k] = [count |-> c, since |-> s]]
        /\ log' = log \cup {e}
        /\ answer' = [answer EXCEPT ![k] = "admitted"]
        /\ now' = now /\ restarts' = restarts
    <2>1. CASE Over(k)
      BY <2>1 DEF Open, Join, Admit
    <2>2. CASE ~Over(k)
      <3>1. [store[k] EXCEPT !.count = @ + 1] = [count |-> c, since |-> s]
        BY <2>2
      <3> QED BY <2>2, <3>1 DEF Open, Join, Admit
    <2> QED BY <2>1, <2>2
  <1>3. e \in Admission
    BY <1>1 DEF Admission
  <1>4. TypeOK'
    <2>1. store' \in [Key -> [count : 0..Limit, since : Nat]]
      BY <1>1, <1>2
    <2>2. log' \in SUBSET Admission
      BY <1>2, <1>3
    <2> QED BY <1>2, <2>1, <2>2
  <1>5. IsFiniteSet(log')
    BY <1>2, FS_AddElement
  <1>6. /\ store'[k].count = c /\ store'[k].since = s
        /\ \A j \in Key \ {k} : store'[j] = store[j]
    BY <1>2
  <1>7. \A a \in log : a.key = k =>
          IF Over(k) THEN a.since + Window < s
          ELSE Behind(a, store[k])
    <2> SUFFICES ASSUME NEW a \in log, a.key = k
                 PROVE  IF Over(k) THEN a.since + Window < s ELSE Behind(a, store[k])
      OBVIOUS
    <2>1. Behind(a, store[k]) /\ a \in Admission
      BY DEF LogInv
    <2>2. CASE Over(k)
      BY <2>1, <2>2 DEF Behind, Over, Admission, LogInv
    <2> QED BY <2>1, <2>2
  <1>8. LogInv'
    <2>1. \A j \in Key : store'[j].since <= now'
      BY <1>1, <1>2, <1>6 DEF LogInv
    <2>2. ASSUME NEW a \in log'
          PROVE  InWindow(a)' /\ Behind(a, store'[a.key])
      <3>1. CASE a = e
        BY <1>1, <1>2, <1>6, <3>1 DEF InWindow, Behind
      <3>2. CASE a \in log
        <4>1. InWindow(a)' /\ a \in Admission
          BY <1>2, <3>2 DEF LogInv, InWindow
        <4>2. CASE a.key = k
          BY <1>1, <1>6, <1>7, <3>2, <4>1, <4>2 DEF Behind, Admission
        <4>3. CASE a.key # k
          BY <1>6, <3>2, <4>1, <4>3 DEF LogInv, Admission
        <4> QED BY <4>1, <4>2, <4>3
      <3> QED BY <1>2, <2>2, <3>1, <3>2
    <2>3. \A a \in log : Apart(a, e) /\ Apart(e, a)
      <3> SUFFICES ASSUME NEW a \in log, a.key = k
                   PROVE  /\ a.since # s => a.since + Window < s
                          /\ a.since = s => a.place # c
        BY <1>1 DEF Apart, Admission
      <3>1. a \in Admission
        OBVIOUS
      <3> QED BY <1>1, <1>7, <3>1 DEF Behind, Admission
    <2>4. ASSUME NEW a \in log', NEW b \in log'
          PROVE  Apart(a, b)
      <3>1. CASE a \in log /\ b \in log
        BY <3>1 DEF LogInv
      <3>2. CASE a = e /\ b = e
        BY <3>2 DEF Apart
      <3> QED BY <1>2, <2>3, <2>4, <3>1, <3>2
    <2> QED BY <2>1, <2>2, <2>4 DEF LogInv, Apart
  <1>9. PlacesInv'
    <2> SUFFICES ASSUME NEW j \in Key, NEW p \in 1..(store'[j].count)
                 PROVE  \E a \in log' : a.key = j /\ a.since = store'[j].since /\ a.place = p
      BY DEF PlacesInv
    <2>1. CASE j # k
      BY <1>2, <1>6, <2>1 DEF PlacesInv
    <2>2. CASE j = k /\ p = c
      <3>1. e \in log' /\ e.key = k /\ e.since = s /\ e.place = c
        BY <1>2
      <3> HIDE DEF e
      <3> QED BY <1>6, <2>2, <3>1
    <2>3. CASE j = k /\ p # c
      <3>1. ~Over(k) /\ p \in 1..store[k].count
        BY <1>6, <2>3
      <3> QED BY <1>2, <1>6, <2>3, <3>1 DEF PlacesInv
    <2> QED BY <2>1, <2>2, <2>3
  <1>10. RefusedInv'
    <2> SUFFICES ASSUME NEW j \in Key, answer'[j] = "refused"
                 PROVE  Over(j)' = Over(j) /\ store'[j].count = store[j].count /\ answer[j] = "refused"
      BY DEF RefusedInv
    <2> QED BY <1>2, <1>6 DEF Over
  <1> QED BY <1>4, <1>5, <1>8, <1>9, <1>10

LEMMA RefuseKeeps ==
  ASSUME LimiterInv, NEW k \in Key, Refuse(k)
  PROVE  LimiterInv'
  <1> USE DEF LimiterInv, Refuse
  <1>1. TypeOK'
    BY DEF TypeOK
  <1>2. LogInv' /\ PlacesInv'
    BY DEF LogInv, PlacesInv, InWindow, Behind, Apart
  <1>3. RefusedInv'
    <2> SUFFICES ASSUME NEW j \in Key, answer'[j] = "refused"
                 PROVE  ~Over(j) /\ store[j].count = Limit
      BY DEF RefusedInv, Over
    <2> QED BY DEF RefusedInv, TypeOK
  <1> QED BY <1>1, <1>2, <1>3

LEMMA TickKeeps ==
  ASSUME LimiterInv, Tick
  PROVE  LimiterInv'
  <1> USE UploadLimiterAssumption DEF LimiterInv, Tick, Silence
  <1>1. TypeOK'
    BY DEF TypeOK
  <1>2. LogInv'
    <2>1. \A k \in Key : store'[k].since <= now'
      BY DEF LogInv, TypeOK
    <2>2. \A a \in log' : InWindow(a)' /\ Behind(a, store'[a.key])
      BY DEF LogInv, InWindow, TypeOK, Admission
    <2> QED BY <2>1, <2>2 DEF LogInv, Behind, Apart
  <1>3. PlacesInv' /\ RefusedInv'
    BY DEF PlacesInv, RefusedInv
  <1> QED BY <1>1, <1>2, <1>3

LEMMA RestartKeeps ==
  ASSUME LimiterInv, Restart
  PROVE  LimiterInv'
  <1> USE UploadLimiterAssumption DEF LimiterInv, Restart, NoWindow, Silence
  <1>1. TypeOK'
    BY DEF TypeOK
  <1>2. IsFiniteSet(log') /\ LogInv' /\ RefusedInv'
    BY FS_EmptySet DEF LogInv, RefusedInv, TypeOK
  <1>3. PlacesInv'
    BY DEF PlacesInv
  <1> QED BY <1>1, <1>2, <1>3

LEMMA LimiterNext == LimiterInv /\ [Next]_vars => LimiterInv'
  <1> SUFFICES ASSUME LimiterInv, [Next]_vars PROVE LimiterInv'
    OBVIOUS
  <1>1. CASE UNCHANGED vars
    BY <1>1 DEF vars, LimiterInv, TypeOK, LogInv, PlacesInv, RefusedInv, InWindow,
                Behind, Apart, Over
  <1>2. CASE \E k \in Key : Open(k) \/ Join(k) \/ Refuse(k)
    BY <1>2, AdmitKeeps, RefuseKeeps
  <1>3. CASE Tick
    BY <1>3, TickKeeps
  <1>4. CASE Restart
    BY <1>4, RestartKeeps
  <1> QED BY <1>1, <1>2, <1>3, <1>4 DEF Next

-----------------------------------------------------------------------------

\* Admissions of an interval are told apart by their places, those of the
\* earlier window counted from Limit on.
LEMMA BurstIsCounted ==
  ASSUME LimiterInv, NEW k \in Key, NEW start \in Nat
  PROVE  Cardinality(During(k, start)) <= 2 * Limit - 1
  <1> DEFINE S == During(k, start)
             N == 1..(2 * Limit - 1)
             f == [a \in S |-> IF a.since >= start THEN a.place ELSE Limit + a.place - 1]
  <1> USE UploadLimiterAssumption
  <1>1. \A a \in S : /\ a \in log /\ a \in Admission /\ a.key = k
                     /\ start <= a.at /\ a.at <= start + Window
                     /\ a.since <= a.at /\ a.at <= a.since + Window
                     /\ a.place = 1 => a.at = a.since
    BY DEF During, LimiterInv, TypeOK, LogInv, InWindow
  <1>2. f \in [S -> N]
    <2> SUFFICES ASSUME NEW a \in S PROVE f[a] \in N
      OBVIOUS
    <2> QED BY <1>1 DEF Admission
  <1>3. ASSUME NEW a \in S, NEW b \in S, f[a] = f[b]
        PROVE  a = b
    <2>1. Apart(a, b) /\ Apart(b, a) /\ a.key = b.key
      BY <1>1, <1>3 DEF LimiterInv, LogInv
    <2>2. /\ a.since \in Nat /\ b.since \in Nat /\ a.place \in 1..Limit /\ b.place \in 1..Limit
          /\ a.at \in Nat /\ b.at \in Nat
      BY <1>1, <1>3 DEF Admission
    <2>3. (a.since >= start <=> b.since >= start) => a.since = b.since
      BY <1>1, <1>3, <2>1, <2>2 DEF Apart
    <2>4. a.since >= start <=> b.since >= start
      BY <1>1, <1>3, <2>2
    <2> QED BY <1>3, <2>1, <2>2, <2>3, <2>4 DEF Apart
  <1>4. f \in Injection(S, N)
    BY <1>2, <1>3, Fun_IsInj
  <1>5. IsFiniteSet(N) /\ Cardinality(N) = 2 * Limit - 1
    <2>1. 2 * Limit - 1 \in Int /\ 1 <= 2 * Limit - 1
      OBVIOUS
    <2> HIDE UploadLimiterAssumption
    <2> QED BY <2>1, FS_Interval
  <1>6. Cardinality(S) <= Cardinality(N)
    BY <1>4, <1>5, FS_Injection
  <1> QED BY <1>5, <1>6

LEMMA RefusalIsCounted ==
  ASSUME LimiterInv, NEW k \in Key, answer[k] = "refused"
  PROVE  Cardinality({a \in log : a.key = k /\ a.at + Window >= now}) >= Limit
  <1> DEFINE S == {a \in log : a.key = k /\ a.at + Window >= now}
             Has(p, a) == a.key = k /\ a.since = store[k].since /\ a.place = p
             f == [p \in 1..Limit |-> CHOOSE a \in log : Has(p, a)]
  <1> USE UploadLimiterAssumption
  <1>1. store[k].count = Limit /\ now <= store[k].since + Window
    BY DEF LimiterInv, RefusedInv, Over, TypeOK
  <1>2. \A p \in 1..Limit : f[p] \in log /\ Has(p, f[p])
    BY <1>1 DEF LimiterInv, PlacesInv
  <1>3. \A p \in 1..Limit : f[p] \in S
    BY <1>1, <1>2 DEF LimiterInv, LogInv, InWindow, TypeOK, Admission
  <1>4. f \in Injection(1..Limit, S)
    BY <1>2, <1>3, Fun_IsInj
  <1>5. IsFiniteSet(S)
    BY FS_Subset DEF LimiterInv
  <1>6. Cardinality(1..Limit) <= Cardinality(S)
    BY <1>4, <1>5, FS_Injection
  <1>7. Cardinality(1..Limit) = Limit
    BY FS_Interval
  <1> QED BY <1>6, <1>7

\* Every reachable state of the limiter is well typed, for every set of keys.
THEOREM LimiterTypeCorrect == Spec => []TypeOK
  <1>1. LimiterInv => TypeOK
    BY DEF LimiterInv
  <1> QED BY <1>1, LimiterInit, LimiterNext, PTL DEF Spec

\* However requests are timed, no interval of a window's length admits as many as
\* twice the limit of a key.
THEOREM BurstBounded == Spec => []BurstIsBounded
  <1>1. LimiterInv => BurstIsBounded
    <2> SUFFICES ASSUME LimiterInv PROVE BurstIsBounded
      OBVIOUS
    <2>1. now \in Nat
      BY DEF LimiterInv, TypeOK
    <2> QED BY <2>1, BurstIsCounted DEF BurstIsBounded
  <1> QED BY <1>1, LimiterInit, LimiterNext, PTL DEF Spec

\* A refused request finds as many admissions behind it as the limit allows,
\* all within a window's length.
THEOREM RefusalDue == Spec => []RefusalIsDue
  <1>1. LimiterInv => RefusalIsDue
    BY RefusalIsCounted DEF RefusalIsDue
  <1> QED BY <1>1, LimiterInit, LimiterNext, PTL DEF Spec

=============================================================================
