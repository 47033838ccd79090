------------------------------ MODULE RateLimiter ------------------------------
(***************************************************************************)
(* The rate limiter in front of every request                              *)
(* (backend/internal/middleware/ratelimit.go): a bucket of tokens for each *)
(* key (the remote address or X-Forwarded-For), used by all the request    *)
(* goroutines, and a goroutine that removes the buckets nobody uses.       *)
(*                                                                         *)
(* A visitor is a struct on the heap: a goroutine that has looked it up    *)
(* keeps its pointer when the clean-up removes it from the map.  Time is   *)
(* counted in ticks.  Instead of the time of its last access a visitor has *)
(* the ticks since then, counted up to Cleanup + 1; from there on it makes *)
(* no difference to the code.                                              *)
(***************************************************************************)
EXTENDS Integers

CONSTANTS
  Keys,      \* the keys clients are told apart by
  Requests,  \* goroutines handling requests, one after the other
  Heap,      \* addresses of visitor structs
  None,      \* no visitor
  Rate,      \* tokens added per interval
  Burst,     \* size of a bucket
  Interval,  \* ticks of an interval
  Cleanup    \* ticks after which a visitor is stale, and between two sweeps

\* The server is started with 100 per second, 200 and 5 minutes: a visitor is
\* stale only when its bucket would be full.
ASSUME ParametersAssumption ==
  /\ {Rate, Burst, Interval, Cleanup} \subseteq Nat \ {0}
  /\ Rate * (Cleanup \div Interval) >= Burst
  /\ None \notin Heap

VARIABLES
  visitors,  \* key -> address of its visitor, or None
  tokens,    \* address -> tokens
  age,       \* address -> ticks since lastAccess
  ticker,    \* ticks since the clean-up's ticker fired
  due,       \* the ticker has fired and no sweep has started since
  sweep,     \* keys the sweep under way has not come to
  sweeping,  \* the clean-up holds the limiter's lock
  pc,        \* request -> next step
  key,       \* request -> its key
  held,      \* request -> address of the visitor getVisitor returned
  answer,    \* request -> what Allow returned last
  quota      \* address -> Interval times the requests that Rate per interval
             \* with a burst of Burst still allows, a fraction the code does
             \* not keep

vars == <<visitors, tokens, age, ticker, due, sweep, sweeping, pc, key, held, answer, quota>>

TypeOK ==
  /\ visitors \in [Keys -> Heap \union {None}]
  /\ tokens \in [Heap -> 0..Burst]
  /\ age \in [Heap -> 0..(Cleanup + 1)]
  /\ ticker \in 0..(Cleanup - 1)
  /\ due \in BOOLEAN
  /\ sweep \subseteq Keys
  /\ sweeping \in BOOLEAN
  /\ pc \in [Requests -> {"idle", "lookup", "create", "allow"}]
  /\ key \in [Requests -> Keys]
  /\ held \in [Requests -> Heap \union {None}]
  /\ answer \in [Requests -> {"none", "allowed", "denied"}]
  /\ quota \in [Heap -> Int]

Least(a, b) == IF a <= b THEN a ELSE b

Goto(r, step) == pc' = [pc EXCEPT ![r] = step]

\* addresses the garbage collector may hand out again
Unused == Heap \ ({visitors[k] : k \in Keys} \union {held[r] : r \in Requests})

-----------------------------------------------------------------------------
(***************************************************************************)
(* A request                                                               *)
(***************************************************************************)
Arrive(r) ==
  /\ pc[r] = "idle"
  /\ Goto(r, "lookup")
  /\ \E k \in Keys : key' = [key EXCEPT ![r] = k]
  /\ answer' = [answer EXCEPT ![r] = "none"]
  /\ UNCHANGED <<visitors, tokens, age, ticker, due, sweep, sweeping, held, quota>>

\* getVisitor under the read lock
Lookup(r) ==
  /\ pc[r] = "lookup"
  /\ ~sweeping
  /\ IF visitors[key[r]] # None
     THEN held' = [held EXCEPT ![r] = visitors[key[r]]] /\ Goto(r, "allow")
     ELSE UNCHANGED held /\ Goto(r, "create")
  /\ UNCHANGED <<visitors, tokens, age, ticker, due, sweep, sweeping, key, answer, quota>>

\* mutant of Created: no second look under the write lock
NotCheckedAgain(r) == TRUE

\* the second look: nobody has created the visitor meanwhile
Created(r) == visitors[key[r]] = None

\* getVisitor under the write lock
Create(r) ==
  /\ pc[r] = "create"
  /\ ~sweeping
  /\ Goto(r, "allow")
  /\ IF Created(r)
     THEN \E v \in Unused :
            /\ visitors' = [visitors EXCEPT ![key[r]] = v]
            /\ tokens' = [tokens EXCEPT ![v] = Burst]
            /\ age' = [age EXCEPT ![v] = 0]
            /\ held' = [held EXCEPT ![r] = v]
            /\ quota' = [quota EXCEPT ![v] = Burst * Interval]
     ELSE /\ held' = [held EXCEPT ![r] = visitors[key[r]]]
          /\ UNCHANGED <<visitors, tokens, age, quota>>
  /\ UNCHANGED <<ticker, due, sweep, sweeping, key, answer>>

\* mutant of Refilled: a part of an interval counts as a whole one
RefilledEarly(v) ==
  Least(Burst, tokens[v] + ((age[v] + Interval - 1) \div Interval) * Rate)

\* the tokens for the whole intervals since the last access, rounded down
Refilled(v) == Least(Burst, tokens[v] + (age[v] \div Interval) * Rate)

\* mutant of Granted: the last token can be spent twice
GrantedAtZero(v) == Refilled(v) >= 0

Granted(v) == Refilled(v) > 0

\* Allow under the visitor's lock: the last access is now, whether a token
\* was added or not
Allow(r) ==
  /\ pc[r] = "allow"
  /\ LET v == held[r]
     IN  /\ tokens' = [tokens EXCEPT ![v] = IF Granted(v) THEN Refilled(v) - 1 ELSE 0]
         /\ age' = [age EXCEPT ![v] = 0]
         /\ answer' = [answer EXCEPT ![r] = IF Granted(v) THEN "allowed" ELSE "denied"]
         /\ quota' = IF Granted(v) THEN [quota EXCEPT ![v] = @ - Interval] ELSE quota
  /\ held' = [held EXCEPT ![r] = None]
  /\ Goto(r, "idle")
  /\ UNCHANGED <<visitors, ticker, due, sweep, sweeping, key>>

-----------------------------------------------------------------------------
(***************************************************************************)
(* The clean-up and time                                                   *)
(***************************************************************************)
\* cleanupLoop takes the lock of the limiter
StartSweep ==
  /\ due /\ ~sweeping
  /\ sweeping' = TRUE
  /\ due' = FALSE
  /\ sweep' = {k \in Keys : visitors[k] # None}
  /\ UNCHANGED <<visitors, tokens, age, ticker, pc, key, held, answer, quota>>

Stale(v) == age[v] > Cleanup

\* one visitor of the map, under its own lock
SweepKey ==
  /\ sweeping
  /\ \E k \in sweep :
       /\ sweep' = sweep \ {k}
       /\ visitors' = IF Stale(visitors[k]) THEN [visitors EXCEPT ![k] = None] ELSE visitors
  /\ UNCHANGED <<tokens, age, ticker, due, sweeping, pc, key, held, answer, quota>>

\* mutant of LastKey: the lock is only released if nothing was swept
NothingSwept == sweep = {} /\ \A k \in Keys : visitors[k] = None

LastKey == sweep = {}

EndSweep ==
  /\ sweeping
  /\ LastKey
  /\ sweeping' = FALSE
  /\ UNCHANGED <<visitors, tokens, age, ticker, due, sweep, pc, key, held, answer, quota>>

\* A tick that the ticker's channel, with room for one, cannot take is lost.
Tick ==
  /\ age' = [v \in Heap |-> Least(Cleanup + 1, age[v] + 1)]
  /\ ticker' = (ticker + 1) % Cleanup
  /\ due' = (due \/ ticker' = 0)
  /\ quota' = [v \in Heap |-> Least(Burst * Interval, quota[v] + Rate)]
  /\ UNCHANGED <<visitors, tokens, sweep, sweeping, pc, key, held, answer>>

Init ==
  /\ visitors = [k \in Keys |-> None]
  /\ tokens = [v \in Heap |-> Burst]
  /\ age = [v \in Heap |-> 0]
  /\ ticker = 0
  /\ due = FALSE
  /\ sweep = {}
  /\ sweeping = FALSE
  /\ pc = [r \in Requests |-> "idle"]
  /\ key \in [Requests -> Keys]
  /\ held = [r \in Requests |-> None]
  /\ answer = [r \in Requests |-> "none"]
  /\ quota = [v \in Heap |-> Burst * Interval]

Handle(r) == Lookup(r) \/ Create(r) \/ Allow(r)

Clean == StartSweep \/ SweepKey \/ EndSweep

Next == Tick \/ Clean \/ \E r \in Requests : Arrive(r) \/ Handle(r)

Spec == Init /\ [][Next]_vars

\* Goroutines are scheduled and time passes; nobody has to send a request.
\* sync.RWMutex lets every goroutine waiting for it in between two sweeps.
FairSpec ==
  /\ Spec
  /\ WF_vars(Tick)
  /\ WF_vars(Clean)
  /\ \A r \in Requests : SF_vars(Lookup(r)) /\ SF_vars(Create(r)) /\ WF_vars(Allow(r))

-----------------------------------------------------------------------------
(***************************************************************************)
(* Properties                                                              *)
(***************************************************************************)
\* A bucket in use is never replaced: requests that arrive together for a
\* new key share one, and only the clean-up takes one out, long after its
\* last access.
NeverReplaced ==
  [][\A k \in Keys : visitors[k] # None /\ visitors'[k] # visitors[k] =>
       visitors'[k] = None /\ sweeping /\ age[visitors[k]] > Cleanup]_vars

\* However the requests fall between the intervals, no bucket, in the map or
\* taken out of it, allows more than Rate per interval with a burst of Burst.
WithinRate == \A v \in Heap : quota[v] >= 0

\* Every request is answered: nobody waits for the limiter's lock for ever.
EveryRequestAnswered == \A r \in Requests : pc[r] # "idle" ~> pc[r] = "idle"

\* What app.go says: "100 req/s per IP with burst of 200".  A client that
\* goes on asking is allowed requests again and again.
GoesOnServing ==
  \A r \in Requests :
    []<>(pc[r] = "allow") => []<>(answer[r] = "allowed")
=============================================================================
