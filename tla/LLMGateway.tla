----------------------------- MODULE LLMGateway -----------------------------
(***************************************************************************)
(* The LLM gateway (services/llm_gateway.py): complete() takes a call      *)
(* through kill-switch check, cache lookup, budget pre-check, provider     *)
(* call, reconcile, cache write, auto-trip and ledger row. Each await is a *)
(* step of its own, so calls of concurrent requests and background tasks   *)
(* interleave; the Redis keys and the llm_usage table are shared. The      *)
(* admin router sets and clears the kill-switch at any time.               *)
(*                                                                         *)
(* A request is the data the control flow tells apart: its run, its cache  *)
(* key, whether it may be cached, whether its model has a price, what it   *)
(* reserves and its per-run cap overrides. Amounts are per axis: USD and   *)
(* tokens.                                                                 *)
(***************************************************************************)
EXTENDS Naturals, FiniteSets

CONSTANTS
    Callers,    \* tasks of the api process that call complete()
    Runs,       \* run ids
    Keys,       \* cache keys
    Requests,   \* requests callers make
    Usages,     \* actual usage a provider may report, by axis
    MaxUsage,   \* the most one call uses, by axis
    Caps,       \* the settings' caps, by scope and axis
    Days,       \* bound: UTC days 0..Days-1
    MaxAnswers, \* bound: provider calls answered
    MaxEvents,  \* bound: admin actions, dropped calls and expiries
    NoRequest, NoCap

Axes == {"usd", "tok"}
Scopes == {"per_call", "run", "day"}
Amounts == [Axes -> Nat]
Dates == 0..(Days - 1)

ASSUME GatewayAssumption ==
    /\ IsFiniteSet(Callers)
    /\ Requests \subseteq
         [run: Runs, key: Keys, cacheable: BOOLEAN, priced: BOOLEAN,
          reserve: Amounts, overrides: [Scopes -> [Axes -> Nat \cup {NoCap}]]]
    /\ Usages \subseteq Amounts
    /\ MaxUsage \in Amounts
    /\ \A u \in Usages, a \in Axes : u[a] <= MaxUsage[a]
    /\ Caps \in [Scopes -> Amounts]
    /\ Days \in Nat \ {0}
    /\ MaxAnswers \in Nat
    /\ MaxEvents \in Nat
    /\ NoRequest \notin Requests
    /\ NoCap \notin Nat

VARIABLES
    kill,     \* Redis llm:killswitch: "none", or the reason
    dayCtr,   \* Redis llm:budget:day:{d}:*
    runCtr,   \* Redis llm:budget:run:{id}:*
    cache,    \* Redis llm:cache:* keys present
    charged,  \* llm_usage: sum of the committed rows of each day's calls
    today,    \* the current UTC day
    pc,       \* each caller's place in complete()
    req,      \* ... its request
    day,      \* ... `today`, read once before the counters
    usage,    \* ... the provider's usage_metadata
    trip,     \* ... new_day_usd >= llm_daily_usd_cap
    ended,    \* how each caller's last call ended
    spent,    \* history: what the provider charged for each day's calls
    halted,   \* history: callers whose call began while the switch was set
    excused,  \* history: a pending trip was dropped, or an admin cleared one
    answers,  \* bound counter
    events    \* bound counter

budgetVars == <<dayCtr, runCtr, charged, spent>>
frameVars == <<day, usage, trip>>
historyVars == <<halted, excused, answers, events>>
vars == <<kill, dayCtr, runCtr, cache, charged, today, pc, req, day, usage,
          trip, ended, spent, halted, excused, answers, events>>

Phases == {"idle", "kill", "cache", "hit", "precheck", "invoke", "reconcile",
           "store", "trip", "ledger"}
Reasons == {"none", "admin", "daily-budget-exhausted"}
Endings == {"none", "killed", "unpriced", "budget", "transient", "no_usage",
            "answered", "cached", "lost"}

Zero == [a \in Axes |-> 0]

\* A day's counters live 172800 s past their last charge, which is no earlier
\* than the day itself: two midnights at least.
BucketDays == 2
Kept(d) == today < d + BucketDays
Plus(x, y) == [a \in Axes |-> x[a] + y[a]]

-----------------------------------------------------------------------------
(* Caps *)

\* Mutant: an override replaces the global cap.
effective_cap_loose(overrides, scope, axis) ==
    LET o == overrides[scope][axis]
    IN  IF o = NoCap THEN Caps[scope][axis] ELSE o

\* _effective_caps: an override only tightens.
effective_cap(overrides, scope, axis) ==
    LET o == overrides[scope][axis]
    IN  IF o = NoCap \/ o > Caps[scope][axis] THEN Caps[scope][axis] ELSE o

\* _check and _check_tok over the three scopes, both axes.
Breaches(q, runUsed, dayUsed) ==
    \E a \in Axes :
        \/ q.reserve[a] > effective_cap(q.overrides, "per_call", a)
        \/ runUsed[a] + q.reserve[a] > effective_cap(q.overrides, "run", a)
        \/ dayUsed[a] + q.reserve[a] > effective_cap(q.overrides, "day", a)

-----------------------------------------------------------------------------
Init ==
    /\ kill = "none"
    /\ dayCtr = [d \in Dates |-> Zero]
    /\ runCtr = [r \in Runs |-> Zero]
    /\ cache = {}
    /\ charged = [d \in Dates |-> Zero]
    /\ today = 0
    /\ pc = [c \in Callers |-> "idle"]
    /\ req = [c \in Callers |-> NoRequest]
    /\ day = [c \in Callers |-> 0]
    /\ usage = [c \in Callers |-> Zero]
    /\ trip = [c \in Callers |-> FALSE]
    /\ ended = [c \in Callers |-> "none"]
    /\ spent = [d \in Dates |-> Zero]
    /\ halted = {}
    /\ excused = FALSE
    /\ answers = 0
    /\ events = 0

Goto(c, place) ==
    /\ pc' = [pc EXCEPT ![c] = place]
    /\ UNCHANGED <<req, ended>>

\* The budget section opens by reading the date.
ReadDate(c, place) ==
    day' = IF place = "precheck" THEN [day EXCEPT ![c] = today] ELSE day

\* The call returns or raises; its locals are gone.
Leave(c, how) ==
    /\ pc' = [pc EXCEPT ![c] = "idle"]
    /\ req' = [req EXCEPT ![c] = NoRequest]
    /\ day' = [day EXCEPT ![c] = 0]
    /\ usage' = [usage EXCEPT ![c] = Zero]
    /\ trip' = [trip EXCEPT ![c] = FALSE]
    /\ ended' = [ended EXCEPT ![c] = how]

-----------------------------------------------------------------------------
(* complete() *)

complete(c, q) ==
    /\ pc[c] = "idle"
    /\ pc' = [pc EXCEPT ![c] = "kill"]
    /\ req' = [req EXCEPT ![c] = q]
    /\ ended' = [ended EXCEPT ![c] = "none"]
    /\ halted' = IF kill = "none" THEN halted \ {c} ELSE halted \cup {c}
    /\ UNCHANGED <<kill, cache, budgetVars, today, frameVars, excused, answers, events>>

\* Mutant: a cacheable call looks in the cache before the kill-switch.
check_killswitch_after_cache(c) ==
    /\ pc[c] = "kill"
    /\ \/ /\ kill # "none" /\ ~(req[c].cacheable /\ req[c].key \in cache)
          /\ Leave(c, "killed")
       \/ kill = "none" /\ ~req[c].priced /\ Leave(c, "unpriced")
       \/ /\ req[c].priced
          /\ kill = "none" \/ (req[c].cacheable /\ req[c].key \in cache)
          /\ \E place \in {IF req[c].cacheable THEN "cache" ELSE "precheck"} :
                Goto(c, place) /\ ReadDate(c, place)
          /\ UNCHANGED <<usage, trip>>
    /\ UNCHANGED <<kill, cache, budgetVars, today, historyVars>>

\* (1) the kill-switch, then the price lookup, which fails closed.
check_killswitch(c) ==
    /\ pc[c] = "kill"
    /\ \/ kill # "none" /\ Leave(c, "killed")
       \/ kill = "none" /\ ~req[c].priced /\ Leave(c, "unpriced")
       \/ /\ kill = "none" /\ req[c].priced
          /\ \E place \in {IF req[c].cacheable THEN "cache" ELSE "precheck"} :
                Goto(c, place) /\ ReadDate(c, place)
          /\ UNCHANGED <<usage, trip>>
    /\ UNCHANGED <<kill, cache, budgetVars, today, historyVars>>

\* (2) the cache lookup.
cache_lookup(c) ==
    /\ pc[c] = "cache"
    /\ \E place \in {IF req[c].key \in cache THEN "hit" ELSE "precheck"} :
          Goto(c, place) /\ ReadDate(c, place)
    /\ UNCHANGED <<kill, cache, budgetVars, today, usage, trip, historyVars>>

\* _serve_cache_hit: a row of cost 0, no counter touched.
serve_cache_hit(c) ==
    /\ pc[c] = "hit"
    /\ Leave(c, "cached")
    /\ UNCHANGED <<kill, cache, budgetVars, today, historyVars>>

\* (3) one MGET of the run's and the day's counters, then the six checks.
pre_check(c) ==
    /\ pc[c] = "precheck"
    /\ \/ /\ Breaches(req[c], runCtr[req[c].run], dayCtr[day[c]])
          /\ Leave(c, "budget")
       \/ /\ ~Breaches(req[c], runCtr[req[c].run], dayCtr[day[c]])
          /\ Goto(c, "invoke")
          /\ UNCHANGED frameVars
    /\ UNCHANGED <<kill, cache, budgetVars, today, historyVars>>

\* The provider answers and charges u.
provider_charges(c, u) ==
    /\ pc[c] = "invoke"
    /\ answers < MaxAnswers
    /\ answers' = answers + 1
    /\ spent' = [spent EXCEPT ![day[c]] = Plus(@, u)]
    /\ UNCHANGED <<kill, cache, dayCtr, runCtr, charged, today, halted, excused, events>>

\* (4) _invoke, with usage metadata.
invoke_answers(c, u) ==
    /\ provider_charges(c, u)
    /\ usage' = [usage EXCEPT ![c] = u]
    /\ Goto(c, "reconcile")
    /\ UNCHANGED <<day, trip>>

\* MissingUsageMetadataError.
invoke_no_usage(c, u) ==
    /\ provider_charges(c, u)
    /\ Leave(c, "no_usage")

\* The SDK raises on a 429, a 529 or a timeout. _invoke retries only
\* TransientProviderError, which nothing raises: the error goes to the caller.
invoke_fails(c) ==
    /\ pc[c] = "invoke"
    /\ Leave(c, "transient")
    /\ UNCHANGED <<kill, cache, budgetVars, today, historyVars>>

Charge(c, amount) ==
    /\ dayCtr' = [dayCtr EXCEPT ![day[c]] = Plus(@, amount)]
    /\ runCtr' = [runCtr EXCEPT ![req[c].run] = Plus(@, amount)]

\* Mutant: the reservation is charged instead of the usage.
reconcile_reserved(c) ==
    /\ pc[c] = "reconcile"
    /\ Charge(c, req[c].reserve)
    /\ trip' = [trip EXCEPT ![c] = dayCtr'[day[c]]["usd"] >= Caps["day"]["usd"]]
    /\ Goto(c, IF req[c].cacheable THEN "store" ELSE "trip")
    /\ UNCHANGED <<kill, cache, charged, spent, today, day, usage, historyVars>>

\* Mutant: the comparison that trips the switch is strict.
reconcile_strict(c) ==
    /\ pc[c] = "reconcile"
    /\ Charge(c, usage[c])
    /\ trip' = [trip EXCEPT ![c] = dayCtr'[day[c]]["usd"] > Caps["day"]["usd"]]
    /\ Goto(c, IF req[c].cacheable THEN "store" ELSE "trip")
    /\ UNCHANGED <<kill, cache, charged, spent, today, day, usage, historyVars>>

\* (5) one transaction adds the actual usage to the day's and run's counters,
\* the day being the one the caller read before its pre-check.
reconcile(c) ==
    /\ pc[c] = "reconcile"
    /\ Charge(c, usage[c])
    /\ trip' = [trip EXCEPT ![c] = dayCtr'[day[c]]["usd"] >= Caps["day"]["usd"]]
    /\ Goto(c, IF req[c].cacheable THEN "store" ELSE "trip")
    /\ UNCHANGED <<kill, cache, charged, spent, today, day, usage, historyVars>>

\* (6) the cache write.
cache_write(c) ==
    /\ pc[c] = "store"
    /\ cache' = cache \cup {req[c].key}
    /\ Goto(c, "trip")
    /\ UNCHANGED <<kill, budgetVars, today, frameVars, historyVars>>

\* Mutant: the flag is set without its reason.
auto_trip_unnamed(c) ==
    /\ pc[c] = "trip"
    /\ kill' = IF trip[c] THEN "1" ELSE kill
    /\ Goto(c, "ledger")
    /\ UNCHANGED <<cache, budgetVars, today, frameVars, historyVars>>

\* (7) the auto-trip.
auto_trip(c) ==
    /\ pc[c] = "trip"
    /\ kill' = IF trip[c] THEN "daily-budget-exhausted" ELSE kill
    /\ Goto(c, "ledger")
    /\ UNCHANGED <<cache, budgetVars, today, frameVars, historyVars>>

\* (8) the llm_usage row is committed and the result returned.
write_ledger(c) ==
    /\ pc[c] = "ledger"
    /\ charged' = [charged EXCEPT ![day[c]] = Plus(@, usage[c])]
    /\ Leave(c, "answered")
    /\ UNCHANGED <<kill, cache, dayCtr, runCtr, spent, today, historyVars>>

-----------------------------------------------------------------------------
(* Admin router, clock and failures *)

Event == events < MaxEvents /\ events' = events + 1

TripPending(c) == pc[c] \in {"store", "trip"} /\ trip[c]

set_killswitch ==
    /\ Event
    /\ kill' = "admin"
    /\ UNCHANGED <<cache, budgetVars, today, pc, req, frameVars, ended, halted, excused,
                   answers>>

\* Calls that began while the switch was set are no longer held to it.
clear_killswitch ==
    /\ Event
    /\ kill' = "none"
    /\ halted' = {}
    /\ excused' = TRUE
    /\ UNCHANGED <<cache, budgetVars, today, pc, req, frameVars, ended, answers>>

midnight ==
    /\ today + 1 < Days
    /\ today' = today + 1
    /\ UNCHANGED <<kill, cache, budgetVars, pc, req, frameVars, ended, historyVars>>

\* llm_cache_ttl_s passes.
expire_cache(key) ==
    /\ Event
    /\ cache' = cache \ {key}
    /\ UNCHANGED <<kill, budgetVars, today, pc, req, frameVars, ended, halted, excused,
                   answers>>

\* llm_run_ttl_s passes since the run's last reconcile.
expire_run(r) ==
    /\ Event
    /\ runCtr' = [runCtr EXCEPT ![r] = Zero]
    /\ UNCHANGED <<kill, cache, dayCtr, charged, spent, today, pc, req, frameVars, ended,
                   halted, excused, answers>>

\* The 2-day TTL of a day's bucket passes. A call that began on day d may charge
\* it later and so prolong it; letting it go all the same admits more behaviours.
expire_day(d) ==
    /\ ~Kept(d)
    /\ dayCtr[d] # Zero
    /\ dayCtr' = [dayCtr EXCEPT ![d] = Zero]
    /\ UNCHANGED <<kill, cache, runCtr, charged, spent, today, pc, req, frameVars, ended,
                   historyVars>>

\* A call is dropped where it stands: the api restarts, its task is cancelled,
\* or Redis or the database raises.
abandon(c) ==
    /\ pc[c] # "idle"
    /\ Event
    /\ excused' = (excused \/ TripPending(c))
    /\ Leave(c, "lost")
    /\ UNCHANGED <<kill, cache, budgetVars, today, halted, answers>>

-----------------------------------------------------------------------------
call_step(c) ==
    \/ check_killswitch(c)
    \/ cache_lookup(c)
    \/ serve_cache_hit(c)
    \/ pre_check(c)
    \/ \E u \in Usages : invoke_answers(c, u) \/ invoke_no_usage(c, u)
    \/ invoke_fails(c)
    \/ reconcile(c)
    \/ cache_write(c)
    \/ auto_trip(c)
    \/ write_ledger(c)

Next ==
    \/ \E c \in Callers : \/ \E q \in Requests : complete(c, q)
                          \/ call_step(c)
                          \/ abandon(c)
    \/ set_killswitch
    \/ clear_killswitch
    \/ midnight
    \/ \E key \in Keys : expire_cache(key)
    \/ \E r \in Runs : expire_run(r)
    \/ \E d \in Dates : expire_day(d)

Spec == Init /\ [][Next]_vars

-----------------------------------------------------------------------------
(* Properties *)

TypeOK ==
    /\ kill \in Reasons
    /\ dayCtr \in [Dates -> Amounts]
    /\ runCtr \in [Runs -> Amounts]
    /\ cache \in SUBSET Keys
    /\ charged \in [Dates -> Amounts]
    /\ today \in Dates
    /\ pc \in [Callers -> Phases]
    /\ req \in [Callers -> Requests \cup {NoRequest}]
    /\ day \in [Callers -> Dates]
    /\ usage \in [Callers -> Amounts]
    /\ trip \in [Callers -> BOOLEAN]
    /\ ended \in [Callers -> Endings]
    /\ spent \in [Dates -> Amounts]
    /\ halted \in SUBSET Callers
    /\ excused \in BOOLEAN
    /\ answers \in Nat
    /\ events \in Nat

\* Callers between their pre-check and their reconcile.
InFlight == {c \in Callers : pc[c] \in {"invoke", "reconcile"}}
OnDay(d) == {c \in InFlight : day[c] = d}
OnRun(r) == {c \in InFlight : req[c].run = r}

\* The most a counter may hold: its cap, and one call's usage for each caller.
Ceiling(scope, a) == Caps[scope][a] + Cardinality(Callers) * MaxUsage[a]

\* The race the module's RACE NOTE accepts is bounded: a day, and a run, ends at
\* most one call's usage per concurrent caller over its cap, whatever was
\* estimated, overridden or dropped. The bound is on what the counter holds: a
\* run's counter, or an old day's, starts again at zero once its TTL passes.
OvershootBounded ==
    \A a \in Axes :
        /\ \A d \in Dates : dayCtr[d][a] <= Ceiling("day", a)
        /\ \A r \in Runs : runCtr[r][a] <= Ceiling("run", a)

\* The counters never show more than was spent, nor the ledger more than the
\* counters of a day whose bucket Redis still keeps: whatever is dropped half
\* way, the budget stays between what is on record and what the provider charged.
LedgerWithinBudgetWithinSpend ==
    \A d \in Dates, a \in Axes :
        /\ Kept(d) => charged[d][a] <= dayCtr[d][a]
        /\ dayCtr[d][a] <= spent[d][a]

\* A call that began under a set kill-switch, not cleared since, gets nothing
\* from the gateway: neither a provider call nor a cached answer.
HaltIsComplete ==
    \A c \in halted :
        pc[c] \in {"idle", "kill"} /\ ended[c] \notin {"answered", "cached"}

\* Once a day's spending has reached the daily USD cap the switch is set, or a
\* caller is on its way to set it, unless an admin cleared the switch or the
\* pending trip was dropped.
ExhaustionTrips ==
    (\E d \in Dates : dayCtr[d]["usd"] > 0 /\ dayCtr[d]["usd"] >= Caps["day"]["usd"]) =>
        kill # "none" \/ excused \/ \E c \in Callers : TripPending(c)

-----------------------------------------------------------------------------
(* The inductive invariant *)

\* A call in progress has its request; no usage is over the most a call uses.
CallsInv ==
    /\ \A c \in Callers : pc[c] # "idle" => req[c] \in Requests
    /\ \A c \in Callers, a \in Axes : usage[c][a] <= MaxUsage[a]

\* A counter leaves room under its ceiling for every call in flight on it.
BudgetInv ==
    \A a \in Axes :
        /\ \A d \in Dates :
              dayCtr[d][a] + Cardinality(OnDay(d)) * MaxUsage[a] <= Ceiling("day", a)
        /\ \A r \in Runs :
              runCtr[r][a] + Cardinality(OnRun(r)) * MaxUsage[a] <= Ceiling("run", a)

\* While a call is held to the switch the switch is set.
HaltInv == HaltIsComplete /\ (halted # {} => kill # "none")

\* Callers on day d whose usage is known and not counted; counted, without a row.
Uncounted(d) == {c \in Callers : pc[c] = "reconcile" /\ day[c] = d}
Unrecorded(d) == {c \in Callers : pc[c] \in {"store", "trip", "ledger"} /\ day[c] = d}

\* One element for each unit that the callers of S use on axis a, by u: as many
\* as the sum of what they use.
Units(S, u, a) == {x \in S \X (1..MaxUsage[a]) : x[2] <= u[x[1]][a]}

\* A caller on its way still finds below the next ledger what it will add there.
LedgerInv ==
    \A d \in Dates, a \in Axes :
        /\ Kept(d) =>
              charged[d][a] + Cardinality(Units(Unrecorded(d), usage, a)) <= dayCtr[d][a]
        /\ dayCtr[d][a] + Cardinality(Units(Uncounted(d), usage, a)) <= spent[d][a]

GatewayInv ==
    TypeOK /\ CallsInv /\ BudgetInv /\ HaltInv /\ ExhaustionTrips /\ LedgerInv
=============================================================================
