-------------------------- MODULE LLMGatewayProofs --------------------------
(***************************************************************************)
(* Proofs about LLMGateway for every finite set of callers, every set of   *)
(* requests and usages, every caps and every bound.                        *)
(***************************************************************************)
EXTENDS LLMGateway, FiniteSetTheorems, TLAPS

-----------------------------------------------------------------------------
(* Operators *)

\* Adding amounts axis by axis yields an amount.
LEMMA PlusType ==
    ASSUME NEW x \in Amounts, NEW y \in Amounts
    PROVE  /\ Plus(x, y) \in Amounts
           /\ \A a \in Axes : Plus(x, y)[a] = x[a] + y[a]
BY DEF Plus, Amounts

LEMMA ZeroType == Zero \in Amounts /\ \A a \in Axes : Zero[a] = 0
BY DEF Zero, Amounts

\* Adding to one entry of a table of amounts keeps the table's type.
LEMMA AddEntry ==
    ASSUME NEW S, NEW f \in [S -> Amounts], NEW i \in S, NEW x \in Amounts,
           NEW g, g = [f EXCEPT ![i] = Plus(@, x)]
    PROVE  /\ g \in [S -> Amounts]
           /\ \A a \in Axes : g[i][a] = f[i][a] + x[a]
           /\ \A j \in S \ {i} : g[j] = f[j]
<1>1. Plus(f[i], x) \in Amounts /\ \A a \in Axes : Plus(f[i], x)[a] = f[i][a] + x[a]
    BY PlusType
<1>2. QED
    BY <1>1

\* An override never yields more than the global cap.
LEMMA CapTightens ==
    ASSUME NEW q \in Requests, NEW s \in Scopes, NEW a \in Axes
    PROVE  /\ effective_cap(q.overrides, s, a) \in Nat
           /\ effective_cap(q.overrides, s, a) <= Caps[s][a]
<1>1. q.overrides[s][a] \in Nat \cup {NoCap}
    BY GatewayAssumption
<1>2. Caps[s][a] \in Nat
    BY GatewayAssumption DEF Amounts
<1>3. QED
    BY <1>1, <1>2 DEF effective_cap

\* A call that passes the pre-check finds both counters within their caps.
LEMMA PreCheckBounds ==
    ASSUME NEW q \in Requests, NEW x \in Amounts, NEW y \in Amounts,
           ~Breaches(q, x, y), NEW a \in Axes
    PROVE  x[a] <= Caps["run"][a] /\ y[a] <= Caps["day"][a]
<1>1. q.reserve[a] \in Nat /\ x[a] \in Nat /\ y[a] \in Nat
    BY GatewayAssumption DEF Amounts
<1>2. /\ x[a] + q.reserve[a] <= effective_cap(q.overrides, "run", a)
      /\ y[a] + q.reserve[a] <= effective_cap(q.overrides, "day", a)
    BY <1>1, CapTightens DEF Breaches, Scopes
<1>3. Caps["run"][a] \in Nat /\ Caps["day"][a] \in Nat
    BY GatewayAssumption DEF Amounts, Scopes
<1>4. QED
    BY <1>1, <1>2, <1>3, CapTightens DEF Scopes

-----------------------------------------------------------------------------
(* Types *)

\* Leaving a call keeps the types of what it touches.
LEMMA LeaveType ==
    ASSUME TypeOK, NEW c \in Callers, NEW how \in Endings, Leave(c, how)
    PROVE  /\ pc' \in [Callers -> Phases]
           /\ req' \in [Callers -> Requests \cup {NoRequest}]
           /\ day' \in [Callers -> Dates]
           /\ usage' \in [Callers -> Amounts]
           /\ trip' \in [Callers -> BOOLEAN]
           /\ ended' \in [Callers -> Endings]
<1>1. 0 \in Dates
    BY GatewayAssumption DEF Dates
<1>2. QED
    BY <1>1, ZeroType DEF TypeOK, Leave, Phases

\* A step inside a call keeps the types of what it touches.
LEMMA GotoType ==
    ASSUME TypeOK, NEW c \in Callers, NEW place \in Phases, Goto(c, place)
    PROVE  /\ pc' \in [Callers -> Phases]
           /\ req' \in [Callers -> Requests \cup {NoRequest}]
           /\ ended' \in [Callers -> Endings]
BY DEF TypeOK, Goto

\* Reconciling adds the call's usage to its day and its run and to nothing else.
LEMMA ReconcileCharges ==
    ASSUME TypeOK, CallsInv, NEW c \in Callers, reconcile(c)
    PROVE  /\ day[c] \in Dates
           /\ req[c] \in Requests
           /\ req[c].run \in Runs
           /\ dayCtr' \in [Dates -> Amounts]
           /\ runCtr' \in [Runs -> Amounts]
           /\ \A a \in Axes : dayCtr'[day[c]][a] = dayCtr[day[c]][a] + usage[c][a]
           /\ \A a \in Axes : runCtr'[req[c].run][a] = runCtr[req[c].run][a] + usage[c][a]
           /\ \A d \in Dates \ {day[c]} : dayCtr'[d] = dayCtr[d]
           /\ \A r \in Runs \ {req[c].run} : runCtr'[r] = runCtr[r]
<1>1. day[c] \in Dates /\ usage[c] \in Amounts /\ dayCtr \in [Dates -> Amounts]
    BY DEF TypeOK
<1>2. req[c] \in Requests /\ req[c].run \in Runs /\ runCtr \in [Runs -> Amounts]
    BY GatewayAssumption DEF TypeOK, CallsInv, reconcile
<1>3. dayCtr' = [dayCtr EXCEPT ![day[c]] = Plus(@, usage[c])]
    BY DEF reconcile, Charge
<1>4. runCtr' = [runCtr EXCEPT ![req[c].run] = Plus(@, usage[c])]
    BY DEF reconcile, Charge
<1>5. /\ dayCtr' \in [Dates -> Amounts]
      /\ \A a \in Axes : dayCtr'[day[c]][a] = dayCtr[day[c]][a] + usage[c][a]
      /\ \A d \in Dates \ {day[c]} : dayCtr'[d] = dayCtr[d]
    <2> DEFINE i == day[c]
               x == usage[c]
    <2>1. /\ i \in Dates /\ x \in Amounts /\ dayCtr \in [Dates -> Amounts]
          /\ dayCtr' = [dayCtr EXCEPT ![i] = Plus(@, x)]
        BY <1>1, <1>3
    <2> HIDE DEF i, x
    <2>2. /\ dayCtr' \in [Dates -> Amounts]
          /\ \A a \in Axes : dayCtr'[i][a] = dayCtr[i][a] + x[a]
          /\ \A d \in Dates \ {i} : dayCtr'[d] = dayCtr[d]
        BY <2>1, AddEntry
    <2>3. QED
        BY <2>2 DEF i, x
<1>6. /\ runCtr' \in [Runs -> Amounts]
      /\ \A a \in Axes : runCtr'[req[c].run][a] = runCtr[req[c].run][a] + usage[c][a]
      /\ \A r \in Runs \ {req[c].run} : runCtr'[r] = runCtr[r]
    <2> DEFINE i == req[c].run
               x == usage[c]
    <2>1. /\ i \in Runs /\ x \in Amounts /\ runCtr \in [Runs -> Amounts]
          /\ runCtr' = [runCtr EXCEPT ![i] = Plus(@, x)]
        BY <1>1, <1>2, <1>4
    <2> HIDE DEF i, x
    <2>2. /\ runCtr' \in [Runs -> Amounts]
          /\ \A a \in Axes : runCtr'[i][a] = runCtr[i][a] + x[a]
          /\ \A r \in Runs \ {i} : runCtr'[r] = runCtr[r]
        BY <2>1, AddEntry
    <2>3. QED
        BY <2>2 DEF i, x
<1>7. QED
    BY <1>1, <1>2, <1>5, <1>6

\* Every step of the gateway keeps the types.
LEMMA GatewayTypeStep == TypeOK /\ CallsInv /\ [Next]_vars => TypeOK'
<1> SUFFICES ASSUME TypeOK, CallsInv, [Next]_vars PROVE TypeOK'
    OBVIOUS
<1> USE GatewayAssumption DEF budgetVars, frameVars, historyVars
<1>1. ASSUME NEW c \in Callers, NEW q \in Requests, complete(c, q) PROVE TypeOK'
    BY <1>1 DEF TypeOK, complete, Phases, Endings
<1>2. ASSUME NEW c \in Callers, check_killswitch(c) PROVE TypeOK'
    <2>1. ASSUME NEW how \in {"killed", "unpriced"}, Leave(c, how) PROVE TypeOK'
        BY <1>2, <2>1, LeaveType DEF check_killswitch, TypeOK, Endings
    <2>2. ASSUME NEW place \in {"cache", "precheck"}, Goto(c, place), ReadDate(c, place),
                 UNCHANGED <<usage, trip>>
          PROVE  TypeOK'
        BY <1>2, <2>2, GotoType DEF check_killswitch, TypeOK, ReadDate, Phases
    <2>3. QED
        BY <1>2, <2>1, <2>2 DEF check_killswitch
<1>3. ASSUME NEW c \in Callers, cache_lookup(c) PROVE TypeOK'
    <2>1. PICK place \in {"hit", "precheck"} : Goto(c, place) /\ ReadDate(c, place)
        BY <1>3 DEF cache_lookup
    <2>2. QED
        BY <1>3, <2>1, GotoType DEF cache_lookup, TypeOK, ReadDate, Phases
<1>4. ASSUME NEW c \in Callers, serve_cache_hit(c) PROVE TypeOK'
    BY <1>4, LeaveType DEF serve_cache_hit, TypeOK, Endings
<1>5. ASSUME NEW c \in Callers, pre_check(c) PROVE TypeOK'
    <2>1. CASE Leave(c, "budget")
        BY <1>5, <2>1, LeaveType DEF pre_check, TypeOK, Endings
    <2>2. CASE Goto(c, "invoke") /\ UNCHANGED frameVars
        BY <1>5, <2>2, GotoType DEF pre_check, TypeOK, Phases
    <2>3. QED
        BY <1>5, <2>1, <2>2 DEF pre_check
<1>6. ASSUME NEW c \in Callers, NEW u \in Usages, provider_charges(c, u)
      PROVE  spent' \in [Dates -> Amounts] /\ answers' \in Nat
    <2> DEFINE i == day[c]
    <2>1. /\ i \in Dates /\ u \in Amounts /\ spent \in [Dates -> Amounts]
          /\ spent' = [spent EXCEPT ![i] = Plus(@, u)]
        BY <1>6 DEF TypeOK, provider_charges
    <2> HIDE DEF i
    <2>2. spent' \in [Dates -> Amounts]
        BY <2>1, AddEntry
    <2>3. QED
        BY <1>6, <2>2 DEF provider_charges, TypeOK
<1>7. ASSUME NEW c \in Callers, NEW u \in Usages, invoke_answers(c, u) PROVE TypeOK'
    <2>1. provider_charges(c, u) /\ Goto(c, "reconcile") /\ UNCHANGED <<day, trip>>
        BY <1>7 DEF invoke_answers
    <2>2. usage' \in [Callers -> Amounts]
        BY <1>7 DEF invoke_answers, TypeOK
    <2>3. QED
        BY <2>1, <2>2, <1>6, GotoType DEF provider_charges, TypeOK, Phases
<1>8. ASSUME NEW c \in Callers, NEW u \in Usages, invoke_no_usage(c, u) PROVE TypeOK'
    BY <1>8, <1>6, LeaveType DEF invoke_no_usage, provider_charges, TypeOK, Endings
<1>9. ASSUME NEW c \in Callers, invoke_fails(c) PROVE TypeOK'
    BY <1>9, LeaveType DEF invoke_fails, TypeOK, Endings
<1>10. ASSUME NEW c \in Callers, reconcile(c) PROVE TypeOK'
    <2>3. trip' \in [Callers -> BOOLEAN]
        BY <1>10 DEF reconcile, TypeOK
    <2>4. PICK place \in {"store", "trip"} : Goto(c, place)
        BY <1>10 DEF reconcile
    <2>5. QED
        BY <1>10, <2>3, <2>4, GotoType, ReconcileCharges DEF reconcile, TypeOK, Phases
<1>11. ASSUME NEW c \in Callers, cache_write(c) PROVE TypeOK'
    <2>1. cache' \in SUBSET Keys
        BY <1>11 DEF cache_write, TypeOK, CallsInv
    <2>2. QED
        BY <1>11, <2>1, GotoType DEF cache_write, TypeOK, Phases
<1>12. ASSUME NEW c \in Callers, auto_trip(c) PROVE TypeOK'
    BY <1>12, GotoType DEF auto_trip, TypeOK, Phases, Reasons
<1>13. ASSUME NEW c \in Callers, write_ledger(c) PROVE TypeOK'
    <2> DEFINE i == day[c]
               x == usage[c]
    <2>1. /\ i \in Dates /\ x \in Amounts /\ charged \in [Dates -> Amounts]
          /\ charged' = [charged EXCEPT ![i] = Plus(@, x)]
        BY <1>13 DEF TypeOK, write_ledger
    <2> HIDE DEF i, x
    <2>2. charged' \in [Dates -> Amounts]
        BY <2>1, AddEntry
    <2>3. QED
        BY <1>13, <2>2, LeaveType DEF write_ledger, TypeOK, Endings
<1>14. ASSUME NEW c \in Callers, abandon(c) PROVE TypeOK'
    <2>1. excused' \in BOOLEAN /\ events' \in Nat
        BY <1>14 DEF abandon, Event, TypeOK
    <2>2. QED
        BY <1>14, <2>1, LeaveType DEF abandon, TypeOK, Endings
<1>15. CASE set_killswitch
    BY <1>15 DEF set_killswitch, Event, TypeOK, Reasons
<1>16. CASE clear_killswitch
    BY <1>16 DEF clear_killswitch, Event, TypeOK, Reasons
<1>17. CASE midnight
    BY <1>17 DEF midnight, TypeOK, Dates
<1>18. ASSUME NEW key \in Keys, expire_cache(key) PROVE TypeOK'
    BY <1>18 DEF expire_cache, Event, TypeOK
<1>19. ASSUME NEW r \in Runs, expire_run(r) PROVE TypeOK'
    BY <1>19, ZeroType DEF expire_run, Event, TypeOK
<1>22. ASSUME NEW d \in Dates, expire_day(d) PROVE TypeOK'
    BY <1>22, ZeroType DEF expire_day, TypeOK
<1>20. CASE UNCHANGED vars
    BY <1>20 DEF vars, TypeOK
<1>21. QED
    BY <1>1, <1>2, <1>3, <1>4, <1>5, <1>7, <1>8, <1>9, <1>10, <1>11, <1>12, <1>13,
       <1>14, <1>15, <1>16, <1>17, <1>18, <1>19, <1>20, <1>22
    DEF Next, call_step

-----------------------------------------------------------------------------
(* Calls *)

\* Every step keeps the request of a call in progress and bounds its usage.
LEMMA CallsStep == TypeOK /\ CallsInv /\ [Next]_vars => CallsInv'
<1> SUFFICES ASSUME TypeOK, CallsInv, [Next]_vars PROVE CallsInv'
    OBVIOUS
<1> USE GatewayAssumption DEF budgetVars, frameVars, historyVars
<1>1. ASSUME NEW c \in Callers, NEW how, Leave(c, how) PROVE CallsInv'
    BY <1>1, ZeroType DEF TypeOK, CallsInv, Leave, Amounts
<1>2. ASSUME NEW c \in Callers, NEW place, Goto(c, place), pc[c] # "idle",
             UNCHANGED usage
      PROVE  CallsInv'
    BY <1>2 DEF TypeOK, CallsInv, Goto
<1>3. ASSUME NEW c \in Callers, NEW q \in Requests, complete(c, q) PROVE CallsInv'
    BY <1>3 DEF TypeOK, CallsInv, complete
<1>4. ASSUME NEW c \in Callers, check_killswitch(c) PROVE CallsInv'
    BY <1>1, <1>2, <1>4 DEF check_killswitch
<1>5. ASSUME NEW c \in Callers, cache_lookup(c) PROVE CallsInv'
    BY <1>2, <1>5 DEF cache_lookup
<1>6. ASSUME NEW c \in Callers, serve_cache_hit(c) PROVE CallsInv'
    BY <1>1, <1>6 DEF serve_cache_hit
<1>7. ASSUME NEW c \in Callers, pre_check(c) PROVE CallsInv'
    BY <1>1, <1>2, <1>7 DEF pre_check
<1>8. ASSUME NEW c \in Callers, NEW u \in Usages, invoke_answers(c, u) PROVE CallsInv'
    BY <1>8 DEF invoke_answers, provider_charges, Goto, TypeOK, CallsInv
<1>9. ASSUME NEW c \in Callers, NEW u \in Usages, invoke_no_usage(c, u) PROVE CallsInv'
    BY <1>1, <1>9 DEF invoke_no_usage
<1>10. ASSUME NEW c \in Callers, invoke_fails(c) PROVE CallsInv'
    BY <1>1, <1>10 DEF invoke_fails
<1>11. ASSUME NEW c \in Callers, reconcile(c) PROVE CallsInv'
    BY <1>2, <1>11 DEF reconcile
<1>12. ASSUME NEW c \in Callers, cache_write(c) PROVE CallsInv'
    BY <1>2, <1>12 DEF cache_write
<1>13. ASSUME NEW c \in Callers, auto_trip(c) PROVE CallsInv'
    BY <1>2, <1>13 DEF auto_trip
<1>14. ASSUME NEW c \in Callers, write_ledger(c) PROVE CallsInv'
    BY <1>1, <1>14 DEF write_ledger
<1>15. ASSUME NEW c \in Callers, abandon(c) PROVE CallsInv'
    BY <1>1, <1>15 DEF abandon
<1>16. ASSUME UNCHANGED <<pc, req, usage>> PROVE CallsInv'
    BY <1>16 DEF CallsInv
<1>17. CASE \/ set_killswitch \/ clear_killswitch \/ midnight
            \/ \E key \in Keys : expire_cache(key)
            \/ \E r \in Runs : expire_run(r)
            \/ \E d \in Dates : expire_day(d)
            \/ UNCHANGED vars
    BY <1>16, <1>17 DEF set_killswitch, clear_killswitch, midnight, expire_cache, expire_run,
                        expire_day, vars
<1>18. QED
    BY <1>3, <1>4, <1>5, <1>6, <1>7, <1>8, <1>9, <1>10, <1>11, <1>12, <1>13, <1>14,
       <1>15, <1>17
    DEF Next, call_step

-----------------------------------------------------------------------------
(* The kill-switch *)

\* Every step keeps the halt: only a clear lets a held call go.
LEMMA HaltStep == TypeOK /\ HaltInv /\ [Next]_vars => HaltInv'
<1> SUFFICES ASSUME TypeOK, HaltInv, [Next]_vars PROVE HaltInv'
    OBVIOUS
<1> USE DEF budgetVars, frameVars, historyVars, HaltInv, HaltIsComplete
<1>1. ASSUME NEW c \in Callers, NEW how, Leave(c, how), halted' = halted, kill' = kill,
             c \in halted => how \notin {"answered", "cached"}
      PROVE  HaltInv'
    BY <1>1 DEF TypeOK, Leave
<1>2. ASSUME NEW c \in Callers, NEW place, Goto(c, place), pc[c] \notin {"idle", "kill"},
             halted' = halted, kill' = kill \/ kill' # "none"
      PROVE  HaltInv'
    BY <1>2 DEF TypeOK, Goto
<1>3. ASSUME NEW c \in Callers, NEW q \in Requests, complete(c, q) PROVE HaltInv'
    BY <1>3 DEF TypeOK, complete
<1>4. ASSUME NEW c \in Callers, check_killswitch(c) PROVE HaltInv'
    <2>1. CASE kill # "none"
        BY <1>1, <1>4, <2>1 DEF check_killswitch
    <2>2. CASE kill = "none"
        <3>1. halted = {} /\ halted' = {}
            BY <1>4, <2>2 DEF check_killswitch
        <3>2. QED
            BY <3>1
    <2>3. QED
        BY <2>1, <2>2
<1>5. ASSUME NEW c \in Callers, cache_lookup(c) PROVE HaltInv'
    BY <1>2, <1>5 DEF cache_lookup
<1>6. ASSUME NEW c \in Callers, serve_cache_hit(c) PROVE HaltInv'
    BY <1>1, <1>6 DEF serve_cache_hit
<1>7. ASSUME NEW c \in Callers, pre_check(c) PROVE HaltInv'
    BY <1>1, <1>2, <1>7 DEF pre_check
<1>8. ASSUME NEW c \in Callers, NEW u \in Usages, invoke_answers(c, u) PROVE HaltInv'
    BY <1>2, <1>8 DEF invoke_answers, provider_charges
<1>9. ASSUME NEW c \in Callers, NEW u \in Usages, invoke_no_usage(c, u) PROVE HaltInv'
    BY <1>1, <1>9 DEF invoke_no_usage, provider_charges
<1>10. ASSUME NEW c \in Callers, invoke_fails(c) PROVE HaltInv'
    BY <1>1, <1>10 DEF invoke_fails
<1>11. ASSUME NEW c \in Callers, reconcile(c) PROVE HaltInv'
    BY <1>2, <1>11 DEF reconcile
<1>12. ASSUME NEW c \in Callers, cache_write(c) PROVE HaltInv'
    BY <1>2, <1>12 DEF cache_write
<1>13. ASSUME NEW c \in Callers, auto_trip(c) PROVE HaltInv'
    BY <1>2, <1>13 DEF auto_trip
<1>14. ASSUME NEW c \in Callers, write_ledger(c) PROVE HaltInv'
    BY <1>1, <1>14 DEF write_ledger
<1>15. ASSUME NEW c \in Callers, abandon(c) PROVE HaltInv'
    BY <1>1, <1>15 DEF abandon
<1>16. CASE set_killswitch
    BY <1>16 DEF set_killswitch
<1>17. CASE clear_killswitch
    BY <1>17 DEF clear_killswitch
<1>18. ASSUME UNCHANGED <<pc, ended, halted, kill>> PROVE HaltInv'
    BY <1>18
<1>19. CASE \/ midnight
            \/ \E key \in Keys : expire_cache(key)
            \/ \E r \in Runs : expire_run(r)
            \/ \E d \in Dates : expire_day(d)
            \/ UNCHANGED vars
    BY <1>18, <1>19 DEF midnight, expire_cache, expire_run, expire_day, vars
<1>20. QED
    BY <1>3, <1>4, <1>5, <1>6, <1>7, <1>8, <1>9, <1>10, <1>11, <1>12, <1>13, <1>14,
       <1>15, <1>16, <1>17, <1>19
    DEF Next, call_step

-----------------------------------------------------------------------------
(* The auto-trip *)

\* Every step keeps the trip certain: the call that reaches the cap sets it off.
LEMMA ExhaustionStep ==
    TypeOK /\ CallsInv /\ ExhaustionTrips /\ [Next]_vars => ExhaustionTrips'
<1> SUFFICES ASSUME TypeOK, CallsInv, ExhaustionTrips, [Next]_vars
             PROVE  ExhaustionTrips'
    OBVIOUS
<1> USE DEF budgetVars, frameVars, historyVars, ExhaustionTrips, TripPending
<1>1. ASSUME NEW c \in Callers, NEW how, Leave(c, how), pc[c] \notin {"store", "trip"},
             UNCHANGED <<dayCtr, kill, excused>>
      PROVE  ExhaustionTrips'
    BY <1>1 DEF TypeOK, Leave
<1>2. ASSUME NEW c \in Callers, NEW place, Goto(c, place), pc[c] \notin {"store", "trip"},
             UNCHANGED <<dayCtr, kill, excused, trip>>
      PROVE  ExhaustionTrips'
    BY <1>2 DEF TypeOK, Goto
<1>3. ASSUME NEW c \in Callers, NEW q \in Requests, complete(c, q) PROVE ExhaustionTrips'
    BY <1>3 DEF TypeOK, complete
<1>4. ASSUME NEW c \in Callers, check_killswitch(c) PROVE ExhaustionTrips'
    BY <1>1, <1>2, <1>4 DEF check_killswitch
<1>5. ASSUME NEW c \in Callers, cache_lookup(c) PROVE ExhaustionTrips'
    BY <1>2, <1>5 DEF cache_lookup
<1>6. ASSUME NEW c \in Callers, serve_cache_hit(c) PROVE ExhaustionTrips'
    BY <1>1, <1>6 DEF serve_cache_hit
<1>7. ASSUME NEW c \in Callers, pre_check(c) PROVE ExhaustionTrips'
    BY <1>1, <1>2, <1>7 DEF pre_check
<1>8. ASSUME NEW c \in Callers, NEW u \in Usages, invoke_answers(c, u)
      PROVE  ExhaustionTrips'
    BY <1>2, <1>8 DEF invoke_answers, provider_charges
<1>9. ASSUME NEW c \in Callers, NEW u \in Usages, invoke_no_usage(c, u)
      PROVE  ExhaustionTrips'
    BY <1>1, <1>9 DEF invoke_no_usage, provider_charges
<1>10. ASSUME NEW c \in Callers, invoke_fails(c) PROVE ExhaustionTrips'
    BY <1>1, <1>10 DEF invoke_fails
<1>11. ASSUME NEW c \in Callers, reconcile(c) PROVE ExhaustionTrips'
    <2>1. /\ pc' = [pc EXCEPT ![c] = IF req[c].cacheable THEN "store" ELSE "trip"]
          /\ trip' = [trip EXCEPT ![c] = dayCtr'[day[c]]["usd"] >= Caps["day"]["usd"]]
          /\ pc[c] = "reconcile" /\ UNCHANGED <<kill, excused>>
        BY <1>11 DEF reconcile, Goto
    <2>2. /\ trip'[c] = (dayCtr'[day[c]]["usd"] >= Caps["day"]["usd"])
          /\ pc'[c] \in {"store", "trip"}
          /\ \A x \in Callers \ {c} : pc'[x] = pc[x] /\ trip'[x] = trip[x]
        BY <2>1 DEF TypeOK
    <2>3. SUFFICES ASSUME NEW d \in Dates, dayCtr'[d]["usd"] > 0,
                          dayCtr'[d]["usd"] >= Caps["day"]["usd"],
                          kill' = "none", ~excused'
                   PROVE  \E x \in Callers : TripPending(x)'
        OBVIOUS
    <2>4. CASE d = day[c]
        BY <2>2, <2>3, <2>4
    <2>5. CASE d # day[c]
        <3>1. dayCtr'[d] = dayCtr[d]
            BY <2>5, <1>11, ReconcileCharges
        <3>2. PICK x \in Callers : TripPending(x)
            BY <3>1, <2>1, <2>3
        <3>3. x # c
            BY <3>2, <2>1
        <3>4. QED
            BY <3>2, <3>3, <2>2
    <2>6. QED
        BY <2>4, <2>5
<1>12. ASSUME NEW c \in Callers, cache_write(c) PROVE ExhaustionTrips'
    BY <1>12 DEF cache_write, Goto, TypeOK
<1>13. ASSUME NEW c \in Callers, auto_trip(c) PROVE ExhaustionTrips'
    BY <1>13 DEF auto_trip, Goto, TypeOK
<1>14. ASSUME NEW c \in Callers, write_ledger(c) PROVE ExhaustionTrips'
    BY <1>1, <1>14 DEF write_ledger
<1>15. ASSUME NEW c \in Callers, abandon(c) PROVE ExhaustionTrips'
    <2>1. CASE TripPending(c)
        BY <1>15, <2>1 DEF abandon
    <2>2. CASE ~TripPending(c)
        BY <1>15, <2>2 DEF abandon, Leave, TypeOK
    <2>3. QED
        BY <2>1, <2>2
<1>16. CASE set_killswitch
    BY <1>16 DEF set_killswitch
<1>17. CASE clear_killswitch
    BY <1>17 DEF clear_killswitch
<1>18. ASSUME UNCHANGED <<pc, trip, dayCtr, kill, excused>> PROVE ExhaustionTrips'
    BY <1>18
<1>19. CASE \/ midnight
            \/ \E key \in Keys : expire_cache(key)
            \/ \E r \in Runs : expire_run(r)
            \/ UNCHANGED vars
    BY <1>18, <1>19 DEF midnight, expire_cache, expire_run, vars
<1>21. ASSUME NEW d \in Dates, expire_day(d) PROVE ExhaustionTrips'
    <2>1. \A x \in Dates : dayCtr'[x] = dayCtr[x] \/ dayCtr'[x]["usd"] = 0
        BY <1>21, ZeroType DEF expire_day, TypeOK, Axes
    <2>2. UNCHANGED <<pc, trip, kill, excused>>
        BY <1>21 DEF expire_day
    <2>3. QED
        BY <2>1, <2>2
<1>20. QED
    BY <1>3, <1>4, <1>5, <1>6, <1>7, <1>8, <1>9, <1>10, <1>11, <1>12, <1>13, <1>14,
       <1>15, <1>16, <1>17, <1>19, <1>21
    DEF Next, call_step

-----------------------------------------------------------------------------
(* The budget *)

\* Multiplication by a natural number is monotone.
LEMMA MulMono ==
    ASSUME NEW m \in Nat, NEW n \in Nat, NEW k \in Nat, m <= n
    PROVE  m * k \in Nat /\ n * k \in Nat /\ m * k <= n * k
<1>1. PICK e \in Nat : n = m + e
    <2>1. n - m \in Nat /\ n = m + (n - m)
        OBVIOUS
    <2>2. QED
        BY <2>1
<1>2. (m + e) * k = m * k + e * k
    OBVIOUS
<1>3. m * k \in Nat /\ e * k \in Nat
    OBVIOUS
<1>4. QED
    BY <1>1, <1>2, <1>3

\* One factor less is one multiple less.
LEMMA MulPred ==
    ASSUME NEW n \in Nat, NEW k \in Nat, n > 0
    PROVE  (n - 1) * k + k = n * k /\ (n - 1) * k \in Nat /\ n * k \in Nat
<1>1. PICK m \in Nat : n = m + 1
    <2>1. n - 1 \in Nat /\ n = (n - 1) + 1
        OBVIOUS
    <2>2. QED
        BY <2>1
<1>2. (m + 1) * k = m * k + k /\ m * k \in Nat
    OBVIOUS
<1>3. QED
    BY <1>1, <1>2

\* Sets of callers are finite and no larger than the set of all callers.
LEMMA CallerSets ==
    ASSUME NEW S \in SUBSET Callers
    PROVE  /\ IsFiniteSet(S)
           /\ Cardinality(S) \in Nat
           /\ Cardinality(Callers) \in Nat
           /\ Cardinality(S) <= Cardinality(Callers)
BY GatewayAssumption, FS_Subset, FS_CardinalityType

\* Fewer calls in flight need less room.
LEMMA RoomShrinks ==
    ASSUME NEW S \in SUBSET Callers, NEW T \in SUBSET S, NEW k \in Nat, NEW L \in Nat,
           NEW v \in Nat, NEW w \in Nat, w <= v, v + Cardinality(S) * k <= L
    PROVE  w + Cardinality(T) * k <= L
<1>1. Cardinality(S) \in Nat /\ Cardinality(T) \in Nat /\ Cardinality(T) <= Cardinality(S)
    BY CallerSets, FS_Subset, FS_CardinalityType
<1>2. Cardinality(T) * k \in Nat /\ Cardinality(S) * k \in Nat
      /\ Cardinality(T) * k <= Cardinality(S) * k
    BY <1>1, MulMono
<1>3. QED
    BY <1>2

\* A counter within its cap has room for all the callers.
LEMMA RoomFromCap ==
    ASSUME NEW S \in SUBSET Callers, NEW k \in Nat, NEW cap \in Nat, NEW v \in Nat, v <= cap
    PROVE  v + Cardinality(S) * k <= cap + Cardinality(Callers) * k
<1>1. /\ Cardinality(S) * k \in Nat /\ Cardinality(Callers) * k \in Nat
      /\ Cardinality(S) * k <= Cardinality(Callers) * k
    BY CallerSets, MulMono
<1>2. QED
    BY <1>1

\* A call that lands uses the room it held.
LEMMA RoomUsed ==
    ASSUME NEW S \in SUBSET Callers, NEW c \in S, NEW k \in Nat, NEW L \in Nat,
           NEW v \in Nat, NEW u \in Nat, u <= k, v + Cardinality(S) * k <= L
    PROVE  v + u + Cardinality(S \ {c}) * k <= L
<1>1. IsFiniteSet(S) /\ Cardinality(S) \in Nat
    BY CallerSets
<1>2. Cardinality(S \ {c}) = Cardinality(S) - 1 /\ Cardinality(S) > 0
    BY <1>1, FS_RemoveElement, FS_EmptySet
<1>3. /\ (Cardinality(S) - 1) * k + k = Cardinality(S) * k
      /\ (Cardinality(S) - 1) * k \in Nat /\ Cardinality(S) * k \in Nat
    BY <1>1, <1>2, MulPred
<1>4. QED
    BY <1>2, <1>3

\* The ceilings are natural numbers.
LEMMA CeilingType ==
    ASSUME NEW s \in Scopes, NEW a \in Axes
    PROVE  /\ Ceiling(s, a) \in Nat /\ MaxUsage[a] \in Nat /\ Caps[s][a] \in Nat
           /\ Ceiling(s, a) = Caps[s][a] + Cardinality(Callers) * MaxUsage[a]
<1>1. MaxUsage[a] \in Nat /\ Caps[s][a] \in Nat
    BY GatewayAssumption DEF Amounts
<1>2. Cardinality(Callers) \in Nat
    BY CallerSets
<1>3. Cardinality(Callers) * MaxUsage[a] \in Nat
    BY <1>1, <1>2, MulMono
<1>4. QED
    BY <1>1, <1>3 DEF Ceiling

\* A step after which no new call is in flight and no counter grew keeps the room.
LEMMA NobodyBoards ==
    ASSUME TypeOK, TypeOK', BudgetInv,
           \A d \in Dates : dayCtr'[d] = dayCtr[d] \/ dayCtr'[d] = Zero,
           \A r \in Runs : runCtr'[r] = runCtr[r] \/ runCtr'[r] = Zero,
           \A c \in InFlight' : c \in InFlight /\ day'[c] = day[c] /\ req'[c] = req[c]
    PROVE  BudgetInv'
<1> SUFFICES ASSUME NEW a \in Axes
             PROVE  /\ \A d \in Dates : dayCtr'[d][a] + Cardinality(OnDay(d)') * MaxUsage[a]
                                            <= Ceiling("day", a)
                    /\ \A r \in Runs : runCtr'[r][a] + Cardinality(OnRun(r)') * MaxUsage[a]
                                            <= Ceiling("run", a)
    BY DEF BudgetInv, Ceiling
<1>1. ASSUME NEW d \in Dates
      PROVE  dayCtr'[d][a] + Cardinality(OnDay(d)') * MaxUsage[a] <= Ceiling("day", a)
    <2>1. OnDay(d) \in SUBSET Callers /\ OnDay(d)' \in SUBSET OnDay(d)
        BY DEF OnDay, InFlight
    <2>2. dayCtr[d][a] \in Nat /\ dayCtr'[d][a] \in Nat /\ dayCtr'[d][a] <= dayCtr[d][a]
        <3>1. dayCtr[d][a] \in Nat
            BY DEF TypeOK, Amounts
        <3>2. CASE dayCtr'[d] = dayCtr[d]
            BY <3>1, <3>2
        <3>3. CASE dayCtr'[d] = Zero
            BY <3>1, <3>3, ZeroType
        <3>4. QED
            BY <3>2, <3>3
    <2>3. dayCtr[d][a] + Cardinality(OnDay(d)) * MaxUsage[a] <= Ceiling("day", a)
        BY DEF BudgetInv
    <2>4. QED
        BY <2>1, <2>2, <2>3, CeilingType, RoomShrinks DEF Scopes
<1>2. ASSUME NEW r \in Runs
      PROVE  runCtr'[r][a] + Cardinality(OnRun(r)') * MaxUsage[a] <= Ceiling("run", a)
    <2>1. OnRun(r) \in SUBSET Callers /\ OnRun(r)' \in SUBSET OnRun(r)
        BY DEF OnRun, InFlight
    <2>2. runCtr[r][a] \in Nat /\ runCtr'[r][a] \in Nat /\ runCtr'[r][a] <= runCtr[r][a]
        <3>1. runCtr[r][a] \in Nat
            BY DEF TypeOK, Amounts
        <3>2. CASE runCtr'[r] = runCtr[r]
            BY <3>1, <3>2
        <3>3. CASE runCtr'[r] = Zero
            BY <3>1, <3>3, ZeroType
        <3>4. QED
            BY <3>2, <3>3
    <2>3. runCtr[r][a] + Cardinality(OnRun(r)) * MaxUsage[a] <= Ceiling("run", a)
        BY DEF BudgetInv
    <2>4. QED
        BY <2>1, <2>2, <2>3, CeilingType, RoomShrinks DEF Scopes
<1>3. QED
    BY <1>1, <1>2

\* A call that passes the pre-check boards counters that are within their caps.
LEMMA PreCheckBoards ==
    ASSUME TypeOK, CallsInv, BudgetInv, NEW c \in Callers, pre_check(c), Goto(c, "invoke"),
           ~Breaches(req[c], runCtr[req[c].run], dayCtr[day[c]]), UNCHANGED frameVars
    PROVE  BudgetInv'
<1> SUFFICES ASSUME NEW a \in Axes
             PROVE  /\ \A d \in Dates : dayCtr[d][a] + Cardinality(OnDay(d)') * MaxUsage[a]
                                            <= Ceiling("day", a)
                    /\ \A r \in Runs : runCtr[r][a] + Cardinality(OnRun(r)') * MaxUsage[a]
                                            <= Ceiling("run", a)
    BY DEF BudgetInv, Ceiling, pre_check, budgetVars
<1>1. /\ pc' = [pc EXCEPT ![c] = "invoke"] /\ req' = req /\ day' = day
      /\ pc[c] = "precheck"
    BY DEF Goto, frameVars, pre_check
<1>2. req[c] \in Requests /\ req[c].run \in Runs /\ day[c] \in Dates
    BY <1>1, GatewayAssumption DEF CallsInv, TypeOK
<1>3. /\ runCtr[req[c].run][a] <= Caps["run"][a]
      /\ dayCtr[day[c]][a] <= Caps["day"][a]
    BY <1>2, PreCheckBounds DEF TypeOK
<1>4. ASSUME NEW d \in Dates
      PROVE  dayCtr[d][a] + Cardinality(OnDay(d)') * MaxUsage[a] <= Ceiling("day", a)
    <2>1. dayCtr[d][a] \in Nat /\ OnDay(d) \in SUBSET Callers
          /\ OnDay(d)' \in SUBSET Callers
        BY DEF TypeOK, Amounts, OnDay, InFlight
    <2>2. CASE d = day[c]
        BY <2>1, <2>2, <1>3, CeilingType, RoomFromCap DEF Scopes
    <2>3. CASE d # day[c]
        <3>1. OnDay(d)' \in SUBSET OnDay(d)
            BY <2>3, <1>1 DEF OnDay, InFlight, TypeOK
        <3>2. dayCtr[d][a] + Cardinality(OnDay(d)) * MaxUsage[a] <= Ceiling("day", a)
            BY DEF BudgetInv
        <3>3. QED
            BY <2>1, <3>1, <3>2, CeilingType, RoomShrinks DEF Scopes
    <2>4. QED
        BY <2>2, <2>3
<1>5. ASSUME NEW r \in Runs
      PROVE  runCtr[r][a] + Cardinality(OnRun(r)') * MaxUsage[a] <= Ceiling("run", a)
    <2>1. runCtr[r][a] \in Nat /\ OnRun(r) \in SUBSET Callers
          /\ OnRun(r)' \in SUBSET Callers
        BY DEF TypeOK, Amounts, OnRun, InFlight
    <2>2. CASE r = req[c].run
        BY <2>1, <2>2, <1>3, CeilingType, RoomFromCap DEF Scopes
    <2>3. CASE r # req[c].run
        <3>1. OnRun(r)' \in SUBSET OnRun(r)
            BY <2>3, <1>1 DEF OnRun, InFlight, TypeOK
        <3>2. runCtr[r][a] + Cardinality(OnRun(r)) * MaxUsage[a] <= Ceiling("run", a)
            BY DEF BudgetInv
        <3>3. QED
            BY <2>1, <3>1, <3>2, CeilingType, RoomShrinks DEF Scopes
    <2>4. QED
        BY <2>2, <2>3
<1>6. QED
    BY <1>4, <1>5

\* A reconciled call uses no more than the room it held.
LEMMA ReconcileLands ==
    ASSUME TypeOK, CallsInv, BudgetInv, NEW c \in Callers, reconcile(c)
    PROVE  BudgetInv'
<1> SUFFICES ASSUME NEW a \in Axes
             PROVE  /\ \A d \in Dates : dayCtr'[d][a] + Cardinality(OnDay(d)') * MaxUsage[a]
                                            <= Ceiling("day", a)
                    /\ \A r \in Runs : runCtr'[r][a] + Cardinality(OnRun(r)') * MaxUsage[a]
                                            <= Ceiling("run", a)
    BY DEF BudgetInv, Ceiling
<1>1. /\ pc' = [pc EXCEPT ![c] = IF req[c].cacheable THEN "store" ELSE "trip"]
      /\ req' = req /\ day' = day /\ pc[c] = "reconcile"
    BY DEF Goto, reconcile
<1>2. usage[c][a] \in Nat /\ usage[c][a] <= MaxUsage[a]
    BY DEF CallsInv, TypeOK, Amounts
<1>3. ASSUME NEW d \in Dates
      PROVE  dayCtr'[d][a] + Cardinality(OnDay(d)') * MaxUsage[a] <= Ceiling("day", a)
    <2>1. /\ dayCtr[d][a] \in Nat /\ OnDay(d) \in SUBSET Callers
          /\ dayCtr[d][a] + Cardinality(OnDay(d)) * MaxUsage[a] <= Ceiling("day", a)
        BY DEF TypeOK, Amounts, OnDay, InFlight, BudgetInv
    <2>2. CASE d = day[c]
        <3>1. c \in OnDay(d) /\ OnDay(d)' = OnDay(d) \ {c}
            BY <2>2, <1>1 DEF OnDay, InFlight, TypeOK
        <3>2. dayCtr'[d][a] = dayCtr[d][a] + usage[c][a]
            BY <2>2, ReconcileCharges
        <3>3. QED
            BY <2>1, <3>1, <3>2, <1>2, CeilingType, RoomUsed DEF Scopes
    <2>3. CASE d # day[c]
        <3>1. OnDay(d)' \in SUBSET OnDay(d)
            BY <2>3, <1>1 DEF OnDay, InFlight, TypeOK
        <3>2. dayCtr'[d] = dayCtr[d]
            BY <2>3, ReconcileCharges
        <3>3. QED
            BY <2>1, <3>1, <3>2, CeilingType, RoomShrinks DEF Scopes
    <2>4. QED
        BY <2>2, <2>3
<1>4. ASSUME NEW r \in Runs
      PROVE  runCtr'[r][a] + Cardinality(OnRun(r)') * MaxUsage[a] <= Ceiling("run", a)
    <2>1. /\ runCtr[r][a] \in Nat /\ OnRun(r) \in SUBSET Callers
          /\ runCtr[r][a] + Cardinality(OnRun(r)) * MaxUsage[a] <= Ceiling("run", a)
        BY DEF TypeOK, Amounts, OnRun, InFlight, BudgetInv
    <2>2. CASE r = req[c].run
        <3>1. c \in OnRun(r) /\ OnRun(r)' = OnRun(r) \ {c}
            BY <2>2, <1>1 DEF OnRun, InFlight, TypeOK
        <3>2. runCtr'[r][a] = runCtr[r][a] + usage[c][a]
            BY <2>2, ReconcileCharges
        <3>3. QED
            BY <2>1, <3>1, <3>2, <1>2, CeilingType, RoomUsed DEF Scopes
    <2>3. CASE r # req[c].run
        <3>1. OnRun(r)' \in SUBSET OnRun(r)
            BY <2>3, <1>1 DEF OnRun, InFlight, TypeOK
        <3>2. runCtr'[r] = runCtr[r]
            BY <2>3, ReconcileCharges
        <3>3. QED
            BY <2>1, <3>1, <3>2, CeilingType, RoomShrinks DEF Scopes
    <2>4. QED
        BY <2>2, <2>3
<1>5. QED
    BY <1>3, <1>4

\* Every step keeps the room under the ceilings.
LEMMA BudgetStep ==
    TypeOK /\ TypeOK' /\ CallsInv /\ BudgetInv /\ [Next]_vars => BudgetInv'
<1> SUFFICES ASSUME TypeOK, TypeOK', CallsInv, BudgetInv, [Next]_vars PROVE BudgetInv'
    OBVIOUS
<1> USE DEF budgetVars, frameVars, historyVars
<1>1. ASSUME NEW c \in Callers, NEW how, Leave(c, how), UNCHANGED <<dayCtr, runCtr>>
      PROVE  BudgetInv'
    <2>1. \A x \in InFlight' : x \in InFlight /\ day'[x] = day[x] /\ req'[x] = req[x]
        BY <1>1 DEF Leave, InFlight, TypeOK
    <2>2. QED
        BY <1>1, <2>1, NobodyBoards
<1>2. ASSUME NEW c \in Callers, NEW place, place \notin {"invoke", "reconcile"}, Goto(c, place),
             ReadDate(c, place) \/ UNCHANGED day, UNCHANGED <<dayCtr, runCtr>>
      PROVE  BudgetInv'
    <2>1. \A x \in InFlight' : x \in InFlight /\ day'[x] = day[x] /\ req'[x] = req[x]
        BY <1>2 DEF Goto, ReadDate, InFlight, TypeOK
    <2>2. QED
        BY <1>2, <2>1, NobodyBoards
<1>3. ASSUME NEW c \in Callers, NEW q \in Requests, complete(c, q) PROVE BudgetInv'
    <2>1. \A x \in InFlight' : x \in InFlight /\ day'[x] = day[x] /\ req'[x] = req[x]
        BY <1>3 DEF complete, InFlight, TypeOK
    <2>2. QED
        BY <1>3, <2>1, NobodyBoards DEF complete
<1>4. ASSUME NEW c \in Callers, check_killswitch(c) PROVE BudgetInv'
    BY <1>1, <1>2, <1>4 DEF check_killswitch
<1>5. ASSUME NEW c \in Callers, cache_lookup(c) PROVE BudgetInv'
    BY <1>2, <1>5 DEF cache_lookup
<1>6. ASSUME NEW c \in Callers, serve_cache_hit(c) PROVE BudgetInv'
    BY <1>1, <1>6 DEF serve_cache_hit
<1>7. ASSUME NEW c \in Callers, pre_check(c) PROVE BudgetInv'
    BY <1>1, <1>7, PreCheckBoards DEF pre_check
<1>8. ASSUME NEW c \in Callers, NEW u \in Usages, invoke_answers(c, u) PROVE BudgetInv'
    <2>1. \A x \in InFlight' : x \in InFlight /\ day'[x] = day[x] /\ req'[x] = req[x]
        BY <1>8 DEF invoke_answers, provider_charges, Goto, InFlight, TypeOK
    <2>2. QED
        BY <1>8, <2>1, NobodyBoards DEF invoke_answers, provider_charges
<1>9. ASSUME NEW c \in Callers, NEW u \in Usages, invoke_no_usage(c, u) PROVE BudgetInv'
    BY <1>1, <1>9 DEF invoke_no_usage, provider_charges
<1>10. ASSUME NEW c \in Callers, invoke_fails(c) PROVE BudgetInv'
    BY <1>1, <1>10 DEF invoke_fails
<1>11. ASSUME NEW c \in Callers, reconcile(c) PROVE BudgetInv'
    BY <1>11, ReconcileLands
<1>12. ASSUME NEW c \in Callers, cache_write(c) PROVE BudgetInv'
    BY <1>2, <1>12 DEF cache_write
<1>13. ASSUME NEW c \in Callers, auto_trip(c) PROVE BudgetInv'
    BY <1>2, <1>13 DEF auto_trip
<1>14. ASSUME NEW c \in Callers, write_ledger(c) PROVE BudgetInv'
    BY <1>1, <1>14 DEF write_ledger
<1>15. ASSUME NEW c \in Callers, abandon(c) PROVE BudgetInv'
    BY <1>1, <1>15 DEF abandon
<1>16. ASSUME UNCHANGED <<pc, req, day>>,
              \A d \in Dates : dayCtr'[d] = dayCtr[d] \/ dayCtr'[d] = Zero,
              \A r \in Runs : runCtr'[r] = runCtr[r] \/ runCtr'[r] = Zero
       PROVE  BudgetInv'
    <2>1. \A x \in InFlight' : x \in InFlight /\ day'[x] = day[x] /\ req'[x] = req[x]
        BY <1>16 DEF InFlight
    <2>2. QED
        BY <1>16, <2>1, NobodyBoards
<1>17. CASE \/ set_killswitch \/ clear_killswitch \/ midnight
            \/ \E key \in Keys : expire_cache(key)
            \/ UNCHANGED vars
    BY <1>16, <1>17 DEF set_killswitch, clear_killswitch, midnight, expire_cache, vars
<1>18. ASSUME NEW r \in Runs, expire_run(r) PROVE BudgetInv'
    BY <1>16, <1>18 DEF expire_run, TypeOK
<1>20. ASSUME NEW d \in Dates, expire_day(d) PROVE BudgetInv'
    BY <1>16, <1>20 DEF expire_day, TypeOK
<1>19. QED
    BY <1>3, <1>4, <1>5, <1>6, <1>7, <1>8, <1>9, <1>10, <1>11, <1>12, <1>13, <1>14,
       <1>15, <1>17, <1>18, <1>20
    DEF Next, call_step

-----------------------------------------------------------------------------
(* The ledgers *)

\* The units of finitely many callers are finitely many.
LEMMA UnitsFinite ==
    ASSUME NEW S \in SUBSET Callers, NEW u, NEW a \in Axes
    PROVE  IsFiniteSet(Units(S, u, a)) /\ Cardinality(Units(S, u, a)) \in Nat
<1>1. IsFiniteSet(S) /\ MaxUsage[a] \in Nat
    BY CallerSets, GatewayAssumption DEF Amounts
<1>2. IsFiniteSet(1..MaxUsage[a])
    BY <1>1, FS_Interval
<1>3. IsFiniteSet(S \X (1..MaxUsage[a]))
    BY <1>1, <1>2, FS_Product
<1>4. Units(S, u, a) \in SUBSET (S \X (1..MaxUsage[a]))
    BY DEF Units
<1>5. IsFiniteSet(Units(S, u, a))
    BY <1>3, <1>4, FS_Subset
<1>6. QED
    BY <1>5, FS_CardinalityType

\* Fewer callers have fewer units.
LEMMA UnitsShrink ==
    ASSUME NEW S \in SUBSET Callers, NEW T \in SUBSET S, NEW u, NEW v, NEW a \in Axes,
           \A c \in T : v[c] = u[c]
    PROVE  Cardinality(Units(T, v, a)) <= Cardinality(Units(S, u, a))
<1>1. Units(T, v, a) \in SUBSET Units(S, u, a)
    BY DEF Units
<1>2. IsFiniteSet(Units(S, u, a))
    BY UnitsFinite
<1>3. QED
    BY <1>1, <1>2, FS_Subset

\* A caller has as many units as it uses.
LEMMA UnitsOfOne ==
    ASSUME NEW S \in SUBSET Callers, NEW c \in S, NEW u \in [Callers -> Amounts],
           NEW a \in Axes, u[c][a] <= MaxUsage[a]
    PROVE  Cardinality(Units(S, u, a)) = Cardinality(Units(S \ {c}, u, a)) + u[c][a]
<1> DEFINE n == u[c][a]
           One == {c} \X (1..n)
           Rest == Units(S \ {c}, u, a)
<1>1. n \in Nat /\ MaxUsage[a] \in Nat /\ n <= MaxUsage[a]
    BY GatewayAssumption DEF Amounts
<1>2. Units(S, u, a) = Rest \cup One /\ Rest \cap One = {}
    <2>1. One \subseteq Units(S, u, a)
        BY <1>1 DEF Units
    <2>2. ASSUME NEW x \in Units(S, u, a), x \notin Rest PROVE x \in One
        BY <1>1, <2>2 DEF Units
    <2>3. Rest \subseteq Units(S, u, a) /\ Rest \cap One = {}
        BY DEF Units
    <2>4. QED
        BY <2>1, <2>2, <2>3
<1>3. IsFiniteSet(Rest) /\ Cardinality(Rest) \in Nat
    BY UnitsFinite
<1>4. IsFiniteSet(One) /\ Cardinality(One) = n
    <2>1. IsFiniteSet({c}) /\ Cardinality({c}) = 1
        BY FS_Singleton
    <2>2. IsFiniteSet(1..n) /\ Cardinality(1..n) = n
        <3>1. n \in Nat
            BY <1>1
        <3> HIDE DEF n
        <3>2. QED
            BY <3>1, FS_Interval
    <2>3. IsFiniteSet(One) /\ Cardinality(One) = Cardinality({c}) * Cardinality(1..n)
        BY <2>1, <2>2, FS_Product
    <2>4. QED
        BY <1>1, <2>1, <2>2, <2>3
<1> HIDE DEF n, One, Rest
<1>5. Cardinality(Rest \cup One) = Cardinality(Rest) + Cardinality(One) - Cardinality({})
    BY <1>2, <1>3, <1>4, FS_Union
<1>6. Cardinality({}) = 0
    BY FS_EmptySet
<1>7. Cardinality(Units(S, u, a)) = Cardinality(Rest) + n
    BY <1>1, <1>2, <1>3, <1>4, <1>5, <1>6
<1>8. QED
    BY <1>7 DEF n, Rest

\* What the ledgers of a day and the units under way are.
LEMMA LedgerTypes ==
    ASSUME TypeOK, NEW d \in Dates, NEW a \in Axes
    PROVE  /\ charged[d][a] \in Nat /\ dayCtr[d][a] \in Nat /\ spent[d][a] \in Nat
           /\ Unrecorded(d) \in SUBSET Callers /\ Uncounted(d) \in SUBSET Callers
           /\ Cardinality(Units(Unrecorded(d), usage, a)) \in Nat
           /\ Cardinality(Units(Uncounted(d), usage, a)) \in Nat
<1>1. charged[d][a] \in Nat /\ dayCtr[d][a] \in Nat /\ spent[d][a] \in Nat
    BY DEF TypeOK, Amounts
<1>2. Unrecorded(d) \in SUBSET Callers /\ Uncounted(d) \in SUBSET Callers
    BY DEF Unrecorded, Uncounted
<1>3. QED
    BY <1>1, <1>2, UnitsFinite

\* A step after which no caller has a usage it did not have, and no ledger but
\* the provider's has moved.
LEMMA NobodyOwesMore ==
    ASSUME TypeOK, TypeOK', LedgerInv, dayCtr' = dayCtr, charged' = charged,
           \A d \in Dates : Kept(d)' => Kept(d),
           \A d \in Dates, a \in Axes : spent[d][a] <= spent'[d][a],
           \A d \in Dates :
              /\ \A c \in Unrecorded(d)' : c \in Unrecorded(d) /\ usage'[c] = usage[c]
              /\ \A c \in Uncounted(d)' : c \in Uncounted(d) /\ usage'[c] = usage[c]
    PROVE  LedgerInv'
<1> SUFFICES ASSUME NEW d \in Dates, NEW a \in Axes
             PROVE  /\ Kept(d)' =>
                         charged'[d][a] + Cardinality(Units(Unrecorded(d)', usage', a))
                           <= dayCtr'[d][a]
                    /\ dayCtr'[d][a] + Cardinality(Units(Uncounted(d)', usage', a))
                         <= spent'[d][a]
    BY DEF LedgerInv
<1>1. /\ Cardinality(Units(Unrecorded(d)', usage', a))
            <= Cardinality(Units(Unrecorded(d), usage, a))
      /\ Cardinality(Units(Uncounted(d)', usage', a))
            <= Cardinality(Units(Uncounted(d), usage, a))
    BY LedgerTypes, UnitsShrink
<1>2. /\ Cardinality(Units(Unrecorded(d)', usage', a)) \in Nat
      /\ Cardinality(Units(Uncounted(d)', usage', a)) \in Nat
      /\ spent'[d][a] \in Nat
    <2>1. Unrecorded(d)' \in SUBSET Callers /\ Uncounted(d)' \in SUBSET Callers
        BY DEF Unrecorded, Uncounted
    <2>2. spent'[d][a] \in Nat
        BY DEF TypeOK, Amounts
    <2>3. QED
        BY <2>1, <2>2, UnitsFinite
<1>3. /\ Kept(d) =>
            charged[d][a] + Cardinality(Units(Unrecorded(d), usage, a)) <= dayCtr[d][a]
      /\ dayCtr[d][a] + Cardinality(Units(Uncounted(d), usage, a)) <= spent[d][a]
      /\ Kept(d)' => Kept(d)
    BY DEF LedgerInv
<1>4. spent[d][a] <= spent'[d][a]
    OBVIOUS
<1>5. QED
    BY <1>1, <1>2, <1>3, <1>4, LedgerTypes

\* The provider answers: its bill grows by what the caller now owes the counter.
LEMMA AnswerIsBilled ==
    ASSUME TypeOK, TypeOK', CallsInv', LedgerInv, NEW c \in Callers, NEW u \in Usages,
           invoke_answers(c, u)
    PROVE  LedgerInv'
<1> SUFFICES ASSUME NEW d \in Dates, NEW a \in Axes
             PROVE  /\ Kept(d)' =>
                         charged'[d][a] + Cardinality(Units(Unrecorded(d)', usage', a))
                           <= dayCtr'[d][a]
                    /\ dayCtr'[d][a] + Cardinality(Units(Uncounted(d)', usage', a))
                         <= spent'[d][a]
    BY DEF LedgerInv
<1>1. /\ pc[c] = "invoke" /\ pc' = [pc EXCEPT ![c] = "reconcile"] /\ day' = day
      /\ usage' = [usage EXCEPT ![c] = u] /\ dayCtr' = dayCtr /\ charged' = charged
      /\ spent' = [spent EXCEPT ![day[c]] = Plus(@, u)]
    BY DEF invoke_answers, provider_charges, Goto
<1>2. u \in Amounts /\ u[a] \in Nat /\ usage'[c] = u /\ u[a] <= MaxUsage[a]
    BY <1>1, GatewayAssumption DEF TypeOK, Amounts
<1>3. /\ Kept(d) =>
            charged[d][a] + Cardinality(Units(Unrecorded(d), usage, a)) <= dayCtr[d][a]
      /\ dayCtr[d][a] + Cardinality(Units(Uncounted(d), usage, a)) <= spent[d][a]
      /\ Kept(d)' => Kept(d)
    BY DEF LedgerInv, Kept, invoke_answers, provider_charges
<1>4. Unrecorded(d)' \in SUBSET Unrecorded(d) /\ \A x \in Unrecorded(d)' : usage'[x] = usage[x]
    BY <1>1 DEF Unrecorded, TypeOK
<1>5. /\ Uncounted(d)' \in SUBSET Callers /\ Uncounted(d)' \ {c} \in SUBSET Uncounted(d)
      /\ \A x \in Uncounted(d)' \ {c} : usage'[x] = usage[x]
    BY <1>1 DEF Uncounted, TypeOK
<1>6. /\ Cardinality(Units(Unrecorded(d)', usage', a))
            <= Cardinality(Units(Unrecorded(d), usage, a))
      /\ Cardinality(Units(Uncounted(d)' \ {c}, usage', a))
            <= Cardinality(Units(Uncounted(d), usage, a))
    BY <1>4, <1>5, LedgerTypes, UnitsShrink
<1>7. /\ Cardinality(Units(Unrecorded(d)', usage', a)) \in Nat
      /\ Cardinality(Units(Uncounted(d)', usage', a)) \in Nat
      /\ Cardinality(Units(Uncounted(d)' \ {c}, usage', a)) \in Nat
    BY <1>4, <1>5, LedgerTypes, UnitsFinite
<1>8. CASE d = day[c]
    <2>1. c \in Uncounted(d)'
        BY <1>1, <1>8 DEF Uncounted, TypeOK
    <2>2. usage' \in [Callers -> Amounts]
        BY DEF TypeOK
    <2>3. Cardinality(Units(Uncounted(d)', usage', a))
            = Cardinality(Units(Uncounted(d)' \ {c}, usage', a)) + u[a]
        BY <1>2, <1>5, <2>1, <2>2, UnitsOfOne
    <2>4. spent'[d][a] = spent[d][a] + u[a]
        BY <1>1, <1>2, <1>8, PlusType DEF TypeOK
    <2>5. QED
        BY <1>1, <1>2, <1>3, <1>6, <1>7, <2>3, <2>4, LedgerTypes
<1>9. CASE d # day[c]
    <2>1. c \notin Uncounted(d)' /\ Uncounted(d)' \ {c} = Uncounted(d)'
        BY <1>1, <1>9 DEF Uncounted, TypeOK
    <2>2. spent'[d] = spent[d]
        BY <1>1, <1>9 DEF TypeOK
    <2>3. QED
        <3>1. Units(Uncounted(d)' \ {c}, usage', a) = Units(Uncounted(d)', usage', a)
            BY <2>1, Zenon
        <3>2. Cardinality(Units(Uncounted(d)', usage', a))
                <= Cardinality(Units(Uncounted(d), usage, a))
            BY <1>6, <3>1, Zenon
        <3>3. QED
            BY <1>1, <1>3, <1>6, <1>7, <2>2, <3>2, LedgerTypes
<1>10. QED
    BY <1>8, <1>9

\* A caller is counted: what it owed the counter it now owes the table.
LEMMA CountIsOwed ==
    ASSUME TypeOK, TypeOK', CallsInv, LedgerInv, NEW c \in Callers, reconcile(c)
    PROVE  LedgerInv'
<1> SUFFICES ASSUME NEW d \in Dates, NEW a \in Axes
             PROVE  /\ Kept(d)' =>
                         charged'[d][a] + Cardinality(Units(Unrecorded(d)', usage', a))
                           <= dayCtr'[d][a]
                    /\ dayCtr'[d][a] + Cardinality(Units(Uncounted(d)', usage', a))
                         <= spent'[d][a]
    BY DEF LedgerInv
<1>1. /\ pc[c] = "reconcile" /\ day' = day /\ usage' = usage /\ charged' = charged
      /\ spent' = spent /\ pc'[c] \in {"store", "trip"}
      /\ \A x \in Callers \ {c} : pc'[x] = pc[x]
    BY DEF reconcile, Goto, TypeOK
<1>2. /\ usage \in [Callers -> Amounts] /\ usage[c][a] \in Nat
      /\ usage[c][a] <= MaxUsage[a]
    BY DEF TypeOK, Amounts, CallsInv
<1>3. /\ Kept(d) =>
            charged[d][a] + Cardinality(Units(Unrecorded(d), usage, a)) <= dayCtr[d][a]
      /\ dayCtr[d][a] + Cardinality(Units(Uncounted(d), usage, a)) <= spent[d][a]
      /\ Kept(d)' => Kept(d)
    BY DEF LedgerInv, Kept, reconcile
<1>4. CASE d = day[c]
    <2>1. /\ Uncounted(d)' = Uncounted(d) \ {c} /\ c \in Uncounted(d)
          /\ c \in Unrecorded(d)' /\ Unrecorded(d)' \ {c} = Unrecorded(d)
          /\ Unrecorded(d)' \in SUBSET Callers
        BY <1>1, <1>4 DEF Uncounted, Unrecorded, TypeOK
    <2>2. dayCtr'[d][a] = dayCtr[d][a] + usage[c][a]
        BY <1>4, ReconcileCharges
    <2>3. Cardinality(Units(Uncounted(d), usage, a))
            = Cardinality(Units(Uncounted(d)', usage, a)) + usage[c][a]
        <3>0. c \in Uncounted(d) /\ Uncounted(d) \in SUBSET Callers
            BY <2>1, LedgerTypes
        <3>1. Cardinality(Units(Uncounted(d), usage, a))
                = Cardinality(Units(Uncounted(d) \ {c}, usage, a)) + usage[c][a]
            BY <1>2, <3>0, UnitsOfOne
        <3>2. QED
            BY <2>1, <3>1, Zenon
    <2>4. Cardinality(Units(Unrecorded(d)', usage, a))
            = Cardinality(Units(Unrecorded(d), usage, a)) + usage[c][a]
        BY <1>2, <2>1, UnitsOfOne
    <2>5. Cardinality(Units(Uncounted(d)', usage, a)) \in Nat
        BY <2>1, LedgerTypes, UnitsFinite
    <2>6. QED
        BY <1>1, <1>2, <1>3, <2>2, <2>3, <2>4, <2>5, LedgerTypes
<1>5. CASE d # day[c]
    <2>1. Uncounted(d)' = Uncounted(d) /\ Unrecorded(d)' = Unrecorded(d)
        BY <1>1, <1>5 DEF Uncounted, Unrecorded, TypeOK
    <2>2. dayCtr'[d] = dayCtr[d]
        BY <1>5, ReconcileCharges
    <2>3. QED
        BY <1>1, <1>3, <2>1, <2>2
<1>6. QED
    BY <1>4, <1>5

\* A row is written: the caller owes nothing any more.
LEMMA RowIsWritten ==
    ASSUME TypeOK, TypeOK', CallsInv, LedgerInv, NEW c \in Callers, write_ledger(c)
    PROVE  LedgerInv'
<1> SUFFICES ASSUME NEW d \in Dates, NEW a \in Axes
             PROVE  /\ Kept(d)' =>
                         charged'[d][a] + Cardinality(Units(Unrecorded(d)', usage', a))
                           <= dayCtr'[d][a]
                    /\ dayCtr'[d][a] + Cardinality(Units(Uncounted(d)', usage', a))
                         <= spent'[d][a]
    BY DEF LedgerInv
<1>1. /\ pc[c] = "ledger" /\ pc'[c] = "idle" /\ dayCtr' = dayCtr /\ spent' = spent
      /\ charged' = [charged EXCEPT ![day[c]] = Plus(@, usage[c])]
      /\ \A x \in Callers \ {c} : pc'[x] = pc[x] /\ day'[x] = day[x] /\ usage'[x] = usage[x]
    BY DEF write_ledger, Leave, TypeOK
<1>2. /\ usage \in [Callers -> Amounts] /\ usage[c] \in Amounts /\ usage[c][a] \in Nat
      /\ usage[c][a] <= MaxUsage[a]
    BY DEF TypeOK, Amounts, CallsInv
<1>3. /\ Kept(d) =>
            charged[d][a] + Cardinality(Units(Unrecorded(d), usage, a)) <= dayCtr[d][a]
      /\ dayCtr[d][a] + Cardinality(Units(Uncounted(d), usage, a)) <= spent[d][a]
      /\ Kept(d)' => Kept(d)
    BY DEF LedgerInv, Kept, write_ledger
<1>4. /\ Uncounted(d)' \in SUBSET Uncounted(d) /\ Unrecorded(d)' \in SUBSET (Unrecorded(d) \ {c})
      /\ \A x \in Uncounted(d)' : usage'[x] = usage[x]
      /\ \A x \in Unrecorded(d)' : usage'[x] = usage[x]
    BY <1>1 DEF Uncounted, Unrecorded
<1>5. /\ Cardinality(Units(Uncounted(d)', usage', a))
            <= Cardinality(Units(Uncounted(d), usage, a))
      /\ Cardinality(Units(Unrecorded(d)', usage', a))
            <= Cardinality(Units(Unrecorded(d) \ {c}, usage, a))
    BY <1>4, LedgerTypes, UnitsShrink
<1>6. /\ Cardinality(Units(Uncounted(d)', usage', a)) \in Nat
      /\ Cardinality(Units(Unrecorded(d)', usage', a)) \in Nat
      /\ Cardinality(Units(Unrecorded(d) \ {c}, usage, a)) \in Nat
    BY <1>4, LedgerTypes, UnitsFinite
<1>7. CASE d = day[c]
    <2>1. c \in Unrecorded(d)
        BY <1>1, <1>7 DEF Unrecorded
    <2>2. Cardinality(Units(Unrecorded(d), usage, a))
            = Cardinality(Units(Unrecorded(d) \ {c}, usage, a)) + usage[c][a]
        BY <1>2, <2>1, LedgerTypes, UnitsOfOne
    <2>3. charged'[d][a] = charged[d][a] + usage[c][a]
        BY <1>1, <1>2, <1>7, PlusType DEF TypeOK
    <2>4. QED
        BY <1>1, <1>2, <1>3, <1>5, <1>6, <2>2, <2>3, LedgerTypes
<1>8. CASE d # day[c]
    <2>1. Unrecorded(d) \ {c} = Unrecorded(d)
        BY <1>8 DEF Unrecorded
    <2>2. charged'[d] = charged[d]
        BY <1>1, <1>8 DEF TypeOK
    <2>3. QED
        <3>1. Units(Unrecorded(d) \ {c}, usage, a) = Units(Unrecorded(d), usage, a)
            BY <2>1, Zenon
        <3>2. Cardinality(Units(Unrecorded(d)', usage', a))
                <= Cardinality(Units(Unrecorded(d), usage, a))
            BY <1>5, <3>1, Zenon
        <3>3. QED
            BY <1>1, <1>3, <1>5, <1>6, <2>2, <3>2, LedgerTypes
<1>9. QED
    BY <1>7, <1>8

\* Every step keeps the three ledgers in their order.
LEMMA LedgerStep ==
    TypeOK /\ TypeOK' /\ CallsInv /\ CallsInv' /\ LedgerInv /\ [Next]_vars => LedgerInv'
<1> SUFFICES ASSUME TypeOK, TypeOK', CallsInv, CallsInv', LedgerInv, [Next]_vars
             PROVE  LedgerInv'
    OBVIOUS
<1> USE DEF budgetVars, frameVars, historyVars
<1>0. \A d \in Dates, a \in Axes : spent[d][a] <= spent[d][a]
    BY LedgerTypes
<1>k. ASSUME UNCHANGED today PROVE \A d \in Dates : Kept(d)' => Kept(d)
    BY <1>k DEF Kept
<1>1. ASSUME NEW c \in Callers, NEW how, Leave(c, how), UNCHANGED <<dayCtr, charged, today>>,
             \A d \in Dates, a \in Axes : spent[d][a] <= spent'[d][a]
      PROVE  LedgerInv'
    <2>1. ASSUME NEW d \in Dates
          PROVE  /\ \A x \in Unrecorded(d)' : x \in Unrecorded(d) /\ usage'[x] = usage[x]
                 /\ \A x \in Uncounted(d)' : x \in Uncounted(d) /\ usage'[x] = usage[x]
        BY <1>1 DEF Leave, Unrecorded, Uncounted, TypeOK
    <2>2. QED
        BY <1>1, <1>k, <2>1, NobodyOwesMore
<1>2. ASSUME NEW c \in Callers, NEW place, Goto(c, place), UNCHANGED <<usage, budgetVars, today>>,
             \/ place \notin {"reconcile", "store", "trip", "ledger"}
             \/ pc[c] \in {"store", "trip"} /\ place \in {"trip", "ledger"},
             pc[c] \in {"store", "trip"} => UNCHANGED day,
             ReadDate(c, place) \/ UNCHANGED day
      PROVE  LedgerInv'
    <2>1. ASSUME NEW d \in Dates
          PROVE  /\ \A x \in Unrecorded(d)' : x \in Unrecorded(d) /\ usage'[x] = usage[x]
                 /\ \A x \in Uncounted(d)' : x \in Uncounted(d) /\ usage'[x] = usage[x]
        BY <1>2 DEF Goto, ReadDate, Unrecorded, Uncounted, TypeOK
    <2>2. QED
        BY <1>0, <1>2, <1>k, <2>1, NobodyOwesMore
<1>3. ASSUME NEW c \in Callers, NEW q \in Requests, complete(c, q) PROVE LedgerInv'
    <2>1. ASSUME NEW d \in Dates
          PROVE  /\ \A x \in Unrecorded(d)' : x \in Unrecorded(d) /\ usage'[x] = usage[x]
                 /\ \A x \in Uncounted(d)' : x \in Uncounted(d) /\ usage'[x] = usage[x]
        BY <1>3 DEF complete, Unrecorded, Uncounted, TypeOK
    <2>2. QED
        BY <1>0, <1>3, <1>k, <2>1, NobodyOwesMore DEF complete
<1>4. ASSUME NEW c \in Callers, check_killswitch(c) PROVE LedgerInv'
    BY <1>0, <1>1, <1>2, <1>4 DEF check_killswitch
<1>5. ASSUME NEW c \in Callers, cache_lookup(c) PROVE LedgerInv'
    BY <1>2, <1>5 DEF cache_lookup
<1>6. ASSUME NEW c \in Callers, serve_cache_hit(c) PROVE LedgerInv'
    BY <1>0, <1>1, <1>6 DEF serve_cache_hit
<1>7. ASSUME NEW c \in Callers, pre_check(c) PROVE LedgerInv'
    BY <1>0, <1>1, <1>2, <1>7 DEF pre_check
<1>8. ASSUME NEW c \in Callers, NEW u \in Usages, invoke_answers(c, u) PROVE LedgerInv'
    BY <1>8, AnswerIsBilled
<1>9. ASSUME NEW c \in Callers, NEW u \in Usages, invoke_no_usage(c, u) PROVE LedgerInv'
    <2>1. /\ u \in Amounts /\ spent' = [spent EXCEPT ![day[c]] = Plus(@, u)]
          /\ day[c] \in Dates /\ spent \in [Dates -> Amounts]
        BY <1>9, GatewayAssumption DEF invoke_no_usage, provider_charges, TypeOK
    <2>2. ASSUME NEW d \in Dates, NEW a \in Axes PROVE spent[d][a] <= spent'[d][a]
        <3>1. spent[d][a] \in Nat /\ u[a] \in Nat
            BY <2>1 DEF Amounts
        <3>2. spent'[d][a] = spent[d][a] \/ spent'[d][a] = spent[d][a] + u[a]
            BY <2>1, PlusType
        <3>3. QED
            BY <3>1, <3>2
    <2>3. QED
        BY <1>1, <1>9, <2>2 DEF invoke_no_usage, provider_charges
<1>10. ASSUME NEW c \in Callers, invoke_fails(c) PROVE LedgerInv'
    BY <1>0, <1>1, <1>10 DEF invoke_fails
<1>11. ASSUME NEW c \in Callers, reconcile(c) PROVE LedgerInv'
    BY <1>11, CountIsOwed
<1>12. ASSUME NEW c \in Callers, cache_write(c) PROVE LedgerInv'
    BY <1>2, <1>12 DEF cache_write
<1>13. ASSUME NEW c \in Callers, auto_trip(c) PROVE LedgerInv'
    BY <1>2, <1>13 DEF auto_trip
<1>14. ASSUME NEW c \in Callers, write_ledger(c) PROVE LedgerInv'
    BY <1>14, RowIsWritten
<1>15. ASSUME NEW c \in Callers, abandon(c) PROVE LedgerInv'
    BY <1>0, <1>1, <1>15 DEF abandon
<1>16. ASSUME UNCHANGED <<pc, day, usage, charged, spent>>, today <= today',
              \A d \in Dates : dayCtr'[d] = dayCtr[d] \/ (~Kept(d) /\ dayCtr'[d] = Zero)
       PROVE  LedgerInv'
    <2> SUFFICES ASSUME NEW d \in Dates, NEW a \in Axes
                 PROVE  /\ Kept(d)' =>
                             charged'[d][a] + Cardinality(Units(Unrecorded(d)', usage', a))
                               <= dayCtr'[d][a]
                        /\ dayCtr'[d][a] + Cardinality(Units(Uncounted(d)', usage', a))
                             <= spent'[d][a]
        BY DEF LedgerInv
    <2>1. /\ Kept(d) =>
                charged[d][a] + Cardinality(Units(Unrecorded(d), usage, a)) <= dayCtr[d][a]
          /\ dayCtr[d][a] + Cardinality(Units(Uncounted(d), usage, a)) <= spent[d][a]
        BY DEF LedgerInv
    <2>2. Unrecorded(d)' = Unrecorded(d) /\ Uncounted(d)' = Uncounted(d)
        BY <1>16 DEF Unrecorded, Uncounted
    <2>3. Kept(d)' => Kept(d)
        BY <1>16 DEF Kept, BucketDays, TypeOK, Dates
    <2>4. CASE dayCtr'[d] = dayCtr[d]
        BY <1>16, <2>1, <2>2, <2>3, <2>4
    <2>5. CASE ~Kept(d) /\ dayCtr'[d] = Zero
        <3>1. dayCtr'[d][a] = 0
            BY <2>5, ZeroType
        <3>2. QED
            BY <1>16, <2>1, <2>2, <2>3, <2>5, <3>1, LedgerTypes
    <2>6. QED
        BY <1>16, <2>4, <2>5
<1>17. CASE \/ set_killswitch \/ clear_killswitch \/ midnight
            \/ \E key \in Keys : expire_cache(key)
            \/ \E r \in Runs : expire_run(r)
            \/ UNCHANGED vars
    <2>1. UNCHANGED <<pc, day, usage, charged, spent, dayCtr>>
        BY <1>17 DEF set_killswitch, clear_killswitch, midnight, expire_cache, expire_run, vars
    <2>2. today <= today'
        BY <1>17 DEF set_killswitch, clear_killswitch, midnight, expire_cache, expire_run, vars,
                     TypeOK, Dates
    <2>3. QED
        BY <1>16, <2>1, <2>2
<1>19. ASSUME NEW d \in Dates, expire_day(d) PROVE LedgerInv'
    <2>1. UNCHANGED <<pc, day, usage, charged, spent>> /\ today <= today'
        BY <1>19 DEF expire_day, TypeOK, Dates
    <2>2. \A x \in Dates : dayCtr'[x] = dayCtr[x] \/ (~Kept(x) /\ dayCtr'[x] = Zero)
        BY <1>19 DEF expire_day, TypeOK
    <2>3. QED
        BY <1>16, <2>1, <2>2
<1>18. QED
    BY <1>3, <1>4, <1>5, <1>6, <1>7, <1>8, <1>9, <1>10, <1>11, <1>12, <1>13, <1>14,
       <1>15, <1>17, <1>19
    DEF Next, call_step

-----------------------------------------------------------------------------
(* The theorems *)

\* The gateway starts in its invariant.
LEMMA GatewayInit == Init => GatewayInv
<1> SUFFICES ASSUME Init PROVE GatewayInv
    OBVIOUS
<1>1. TypeOK
    <2>1. 0 \in Dates
        BY GatewayAssumption DEF Dates
    <2>2. QED
        BY <2>1, ZeroType DEF Init, TypeOK, Reasons, Phases, Endings
<1>2. CallsInv
    BY GatewayAssumption, ZeroType DEF Init, CallsInv, Amounts
<1>3. BudgetInv
    <2>1. ASSUME NEW a \in Axes, NEW d \in Dates
          PROVE  dayCtr[d][a] + Cardinality(OnDay(d)) * MaxUsage[a] <= Ceiling("day", a)
        <3>1. dayCtr[d][a] = 0 /\ OnDay(d) \in SUBSET Callers
            BY ZeroType DEF Init, OnDay, InFlight
        <3>2. QED
            BY <3>1, CeilingType, RoomFromCap DEF Scopes
    <2>2. ASSUME NEW a \in Axes, NEW r \in Runs
          PROVE  runCtr[r][a] + Cardinality(OnRun(r)) * MaxUsage[a] <= Ceiling("run", a)
        <3>1. runCtr[r][a] = 0 /\ OnRun(r) \in SUBSET Callers
            BY ZeroType DEF Init, OnRun, InFlight
        <3>2. QED
            BY <3>1, CeilingType, RoomFromCap DEF Scopes
    <2>3. QED
        BY <2>1, <2>2 DEF BudgetInv
<1>4. HaltInv
    BY DEF Init, HaltInv, HaltIsComplete
<1>5. ExhaustionTrips
    BY ZeroType DEF Init, ExhaustionTrips, Axes
<1>6. LedgerInv
    <2> SUFFICES ASSUME NEW d \in Dates, NEW a \in Axes
                 PROVE  /\ Kept(d) =>
                             charged[d][a] + Cardinality(Units(Unrecorded(d), usage, a))
                               <= dayCtr[d][a]
                        /\ dayCtr[d][a] + Cardinality(Units(Uncounted(d), usage, a))
                             <= spent[d][a]
        BY DEF LedgerInv
    <2>1. Unrecorded(d) = {} /\ Uncounted(d) = {}
        BY DEF Init, Unrecorded, Uncounted
    <2>2. Units({}, usage, a) = {}
        BY DEF Units
    <2>3. Cardinality({}) = 0
        BY FS_EmptySet
    <2>4. charged[d][a] = 0 /\ dayCtr[d][a] = 0 /\ spent[d][a] = 0
        BY ZeroType DEF Init
    <2>5. QED
        BY <2>1, <2>2, <2>3, <2>4
<1>7. QED
    BY <1>1, <1>2, <1>3, <1>4, <1>5, <1>6 DEF GatewayInv

\* The gateway's invariant is inductive.
THEOREM GatewayInductive == Spec => []GatewayInv
<1>1. GatewayInv /\ [Next]_vars => GatewayInv'
    BY GatewayTypeStep, CallsStep, BudgetStep, HaltStep, ExhaustionStep, LedgerStep
    DEF GatewayInv
<1>2. QED
    BY <1>1, GatewayInit, PTL DEF Spec

\* The gateway's keys, counters and calls always have their types.
THEOREM GatewayTypeCorrect == Spec => []TypeOK
<1>1. GatewayInv => TypeOK
    BY DEF GatewayInv
<1>2. QED
    BY <1>1, GatewayInductive, PTL

\* For every number of callers and all caps, requests and overrides: the
\* check-then-charge race of complete() takes a counter over its cap by at most
\* one call's usage per caller.
THEOREM OvershootIsBounded == Spec => []OvershootBounded
<1>1. GatewayInv => OvershootBounded
    <2> SUFFICES ASSUME GatewayInv, NEW a \in Axes
                 PROVE  /\ \A d \in Dates : dayCtr[d][a] <= Ceiling("day", a)
                        /\ \A r \in Runs : runCtr[r][a] <= Ceiling("run", a)
        BY DEF OvershootBounded
    <2>1. ASSUME NEW d \in Dates PROVE dayCtr[d][a] <= Ceiling("day", a)
        <3>1. dayCtr[d][a] \in Nat /\ OnDay(d) \in SUBSET Callers
            BY DEF GatewayInv, TypeOK, Amounts, OnDay, InFlight
        <3>2. Cardinality(OnDay(d)) * MaxUsage[a] \in Nat
            BY <3>1, CallerSets, CeilingType, MulMono DEF Scopes
        <3>3. dayCtr[d][a] + Cardinality(OnDay(d)) * MaxUsage[a] <= Ceiling("day", a)
            BY DEF GatewayInv, BudgetInv
        <3>4. QED
            BY <3>1, <3>2, <3>3, CeilingType DEF Scopes
    <2>2. ASSUME NEW r \in Runs PROVE runCtr[r][a] <= Ceiling("run", a)
        <3>1. runCtr[r][a] \in Nat /\ OnRun(r) \in SUBSET Callers
            BY DEF GatewayInv, TypeOK, Amounts, OnRun, InFlight
        <3>2. Cardinality(OnRun(r)) * MaxUsage[a] \in Nat
            BY <3>1, CallerSets, CeilingType, MulMono DEF Scopes
        <3>3. runCtr[r][a] + Cardinality(OnRun(r)) * MaxUsage[a] <= Ceiling("run", a)
            BY DEF GatewayInv, BudgetInv
        <3>4. QED
            BY <3>1, <3>2, <3>3, CeilingType DEF Scopes
    <2>3. QED
        BY <2>1, <2>2
<1>2. QED
    BY <1>1, GatewayInductive, PTL

\* A call that began under a set kill-switch is never served, from the provider
\* or from the cache, unless an admin clears the switch.
THEOREM HaltHolds == Spec => []HaltIsComplete
<1>1. GatewayInv => HaltIsComplete
    BY DEF GatewayInv, HaltInv
<1>2. QED
    BY <1>1, GatewayInductive, PTL

\* A day that has reached its cap has the switch set or about to be set, unless
\* an admin cleared it or the call that would set it was dropped.
THEOREM ExhaustionIsNoticed == Spec => []ExhaustionTrips
<1>1. GatewayInv => ExhaustionTrips
    BY DEF GatewayInv
<1>2. QED
    BY <1>1, GatewayInductive, PTL

\* Whatever is dropped half way, the llm_usage table never shows more than the
\* counter of a day whose bucket is kept, nor any counter more than the provider charged, for every
\* number of callers that interleave in complete().
THEOREM LedgersAreOrdered == Spec => []LedgerWithinBudgetWithinSpend
<1>1. GatewayInv => LedgerWithinBudgetWithinSpend
    <2> SUFFICES ASSUME GatewayInv, NEW d \in Dates, NEW a \in Axes
                 PROVE  /\ Kept(d) => charged[d][a] <= dayCtr[d][a]
                        /\ dayCtr[d][a] <= spent[d][a]
        BY DEF LedgerWithinBudgetWithinSpend
    <2>1. TypeOK
        BY DEF GatewayInv
    <2>2. /\ Kept(d) =>
                charged[d][a] + Cardinality(Units(Unrecorded(d), usage, a)) <= dayCtr[d][a]
          /\ dayCtr[d][a] + Cardinality(Units(Uncounted(d), usage, a)) <= spent[d][a]
        BY DEF GatewayInv, LedgerInv
    <2>3. QED
        BY <2>1, <2>2, LedgerTypes
<1>2. QED
    BY <1>1, GatewayInductive, PTL
=============================================================================
