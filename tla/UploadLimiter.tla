---------------------------- MODULE UploadLimiter ----------------------------
(***************************************************************************)
(* The rate limiter of the upload handler: per key (session and address) a *)
(* window that opens with a request and the number of requests admitted    *)
(* since.  It is kept in the memory of the web process, which may restart. *)
(* isRateLimited runs without an await between its read and its write.     *)
(***************************************************************************)
EXTENDS Integers, FiniteSets

CONSTANTS
  Key,          \* session and address of a client
  Window,       \* RATE_LIMIT_WINDOW_MS
  Limit,        \* RATE_LIMIT_MAX_REQUESTS
  MaxTime,      \* bound: length of a behaviour
  MaxRestarts   \* bound: restarts of the web process

ASSUME UploadLimiterAssumption ==
  /\ Window \in Nat \ {0} /\ Limit \in Nat \ {0}
  /\ {MaxTime, MaxRestarts} \subseteq Nat

VARIABLES
  now,      \* Date.now()
  store,    \* uploadRateLimitStore
  log,      \* auxiliary: requests admitted since the process started
  answer,   \* the last answer of this instant to each key
  restarts  \* spent part of the bound

vars == <<now, store, log, answer, restarts>>

NoWindow == [count |-> 0, since |-> 0]

\* A request was admitted at some time, as the place-th of a window.
Admission == [key : Key, at : Nat, since : Nat, place : 1..Limit]

TypeOK ==
  /\ now \in Nat
  /\ store \in [Key -> [count : 0..Limit, since : Nat]]
  /\ log \in SUBSET Admission
  /\ answer \in [Key -> {"none", "admitted", "refused"}]
  /\ restarts \in 0..MaxRestarts

Silence == [k \in Key |-> "none"]

Init ==
  /\ now = 0
  /\ store = [k \in Key |-> NoWindow]
  /\ log = {}
  /\ answer = Silence
  /\ restarts = 0

\* Mutant of Over: a window is over when its length has passed.
OverEarly(k) == store[k].count = 0 \/ now - store[k].since >= Window

\* A key without a record is one whose window is over.
Over(k) == store[k].count = 0 \/ now - store[k].since > Window

Admit(k, record) ==
  /\ store' = [store EXCEPT ![k] = record]
  /\ log' = log \cup {[key |-> k, at |-> now, since |-> record.since,
                       place |-> record.count]}
  /\ answer' = [answer EXCEPT ![k] = "admitted"]
  /\ UNCHANGED <<now, restarts>>

Open(k) == Over(k) /\ Admit(k, [count |-> 1, since |-> now])

\* Mutant of Join: the limit is reached one request late.
JoinOneMore(k) ==
  /\ ~Over(k) /\ store[k].count <= Limit
  /\ Admit(k, [store[k] EXCEPT !.count = @ + 1])

Join(k) ==
  /\ ~Over(k) /\ store[k].count < Limit
  /\ Admit(k, [store[k] EXCEPT !.count = @ + 1])

\* Mutant of Refuse: a refused request starts the window anew.
RefuseAndRenew(k) ==
  /\ ~Over(k) /\ store[k].count = Limit
  /\ store' = [store EXCEPT ![k].since = now]
  /\ answer' = [answer EXCEPT ![k] = "refused"]
  /\ UNCHANGED <<now, log, restarts>>

Refuse(k) ==
  /\ ~Over(k) /\ store[k].count = Limit
  /\ answer' = [answer EXCEPT ![k] = "refused"]
  /\ UNCHANGED <<now, store, log, restarts>>

Tick ==
  /\ now < MaxTime
  /\ now' = now + 1
  /\ answer' = Silence
  /\ UNCHANGED <<store, log, restarts>>

\* What the limiter promises, it promises within the life of a process.
Restart ==
  /\ restarts < MaxRestarts
  /\ restarts' = restarts + 1
  /\ store' = [k \in Key |-> NoWindow]
  /\ log' = {}
  /\ answer' = Silence
  /\ UNCHANGED now

Next == (\E k \in Key : Open(k) \/ Join(k) \/ Refuse(k)) \/ Tick \/ Restart

Spec == Init /\ [][Next]_vars

-----------------------------------------------------------------------------

\* Requests of a key admitted in an interval as long as a window.
During(k, start) ==
  {a \in log : a.key = k /\ a.at >= start /\ a.at <= start + Window}

\* However requests are timed, no minute admits more than nine uploads of one
\* session and address: twice the limit of five less one, for a window opens with
\* the first request after the last one.
BurstIsBounded ==
  \A k \in Key : \A start \in 0..now : Cardinality(During(k, start)) <= 2 * Limit - 1

\* An upload is refused only if as many as the limit allows were admitted within
\* the minute before it: trying again does not put off the end of a refusal.
RefusalIsDue ==
  \A k \in Key :
    answer[k] = "refused"
      => Cardinality({a \in log : a.key = k /\ a.at + Window >= now}) >= Limit

=============================================================================
