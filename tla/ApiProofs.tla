----------------------------- MODULE ApiProofs -----------------------------
(***************************************************************************)
(* Proofs about what the api itself keeps and computes: accounts and       *)
(* sessions (Accounts), the first-generation runs (RunLedger), the rating  *)
(* of a journey (FlowRisk), and the reports and the scores behind a heal   *)
(* (Algorithms).  All are for any accounts, rows, journeys, elements and   *)
(* numbers.                                                                *)
(***************************************************************************)
EXTENDS Accounts, RunLedger, Algorithms, FlowRisk, Integers,
        FiniteSetTheorems, WellFoundedInduction, TLAPS

---------------------------------------------------------------------------
(* Accounts and sessions.                                                  *)

\* A refresh token is never good for longer than its own life after its
\* sign-in: this is what bounds the access tokens it is exchanged for.
RefreshLife ==
    \A c \in Clients : \A t \in held[c] :
      t.type = "refresh" => t.age + t.left <= REFRESH

\* Nobody's change under way is of their own role.
NotOneself == \A c \in Clients : req[c] # Idle => req[c].by # req[c].of

AccountsInv ==
    /\ TypeOK
    /\ SessionsEnd
    /\ RefreshLife
    /\ NoStaleRole
    /\ NotOneself
    /\ AdminRemains

---------------------------------------------------------------------------
(* Tokens.                                                                 *)

\* What every token has: the two conjuncts about a token, for one set of them.
Bounded(S) ==
    /\ S \subseteq Tokens
    /\ \A t \in S : t.age + t.left <= Limit
    /\ \A t \in S : t.type = "refresh" => t.age + t.left <= REFRESH

LEMMA BoundedTokens ==
    ASSUME TypeOK, SessionsEnd, RefreshLife, NEW c \in Clients
    PROVE  Bounded(held[c])
BY DEF TypeOK, SessionsEnd, RefreshLife, Bounded

\* The cookies of one client may be replaced by any that are within bounds.
LEMMA CookiesReplaced ==
    ASSUME TypeOK, SessionsEnd, RefreshLife, NEW c \in Clients, NEW S,
           Bounded(S), held' = [held EXCEPT ![c] = S]
    PROVE  /\ held' \in [Clients -> SUBSET Tokens]
           /\ SessionsEnd'
           /\ RefreshLife'
<1>1. S \in SUBSET Tokens
  BY DEF Bounded
<1>2. held' \in [Clients -> SUBSET Tokens]
  BY <1>1 DEF TypeOK
<1>3. \A d \in Clients : held'[d] = IF d = c THEN S ELSE held[d]
  BY DEF TypeOK
<1>4. SessionsEnd'
  BY <1>3 DEF SessionsEnd, Bounded, Limit
<1>5. RefreshLife'
  BY <1>3 DEF RefreshLife, Bounded
<1> QED BY <1>2, <1>4, <1>5

\* A new token of a session that is age old is within bounds.
LEMMA NewToken ==
    ASSUME NEW u \in Users, NEW type \in {"access", "refresh"},
           NEW life \in 0..REFRESH, NEW age \in 0..REFRESH,
           life + age <= Limit, type = "refresh" => life + age <= REFRESH
    PROVE  Bounded({create_token(u, type, life, age)})
<1> DEFINE t == [sub |-> u, type |-> type, left |-> life, age |-> age]
<1>1. age \in 0..Limit
  BY AccountsAssumption DEF Limit
<1>2. t \in Tokens
  BY <1>1 DEF Tokens
<1>3. t.age + t.left <= Limit /\ (t.type = "refresh" => t.age + t.left <= REFRESH)
  BY AccountsAssumption DEF Limit
<1> QED BY <1>2, <1>3 DEF Bounded, create_token

\* keep adds the new cookies to some of the old ones.
LEMMA KeptTokens ==
    ASSUME TypeOK, SessionsEnd, RefreshLife, NEW c \in Clients,
           NEW S, Bounded(S)
    PROVE  Bounded(keep(c, S))
<1>1. Bounded(held[c])
  BY BoundedTokens
<1>2. keep(c, S) \subseteq held[c] \cup S
  BY DEF keep
<1> QED BY <1>1, <1>2 DEF Bounded

\* A token stays within bounds as time passes.
LEMMA AgedTokens ==
    ASSUME NEW S, Bounded(S)
    PROVE  Bounded({aged(t) : t \in S})
<1>1. SUFFICES ASSUME NEW t \in S
               PROVE  /\ aged(t) \in Tokens
                      /\ aged(t).age + aged(t).left <= Limit
                      /\ aged(t).type = "refresh" =>
                           aged(t).age + aged(t).left <= REFRESH
  BY DEF Bounded
<1>2. /\ t \in Tokens
      /\ t.age + t.left <= Limit
      /\ t.type = "refresh" => t.age + t.left <= REFRESH
  BY DEF Bounded
<1>3. CASE t.left = 0
  BY <1>2, <1>3 DEF aged
<1>4. CASE t.left # 0
  <2> DEFINE age == IF t.left = 1 THEN 0 ELSE t.age + 1
             a == [sub |-> t.sub, type |-> t.type, left |-> t.left - 1,
                   age |-> age]
  <2>1. /\ t.sub \in Users /\ t.type \in {"access", "refresh"}
        /\ t.left \in 0..REFRESH /\ t.age \in 0..Limit
        /\ REFRESH \in Nat /\ Limit \in Nat
    BY <1>2, AccountsAssumption DEF Tokens, Limit
  <2>2. /\ t.left - 1 \in 0..REFRESH
        /\ age \in Nat
        /\ age + (t.left - 1) <= t.age + t.left
    BY <1>4, <2>1
  <2>3. age \in 0..Limit
    BY <1>2, <1>4, <2>1
  <2>4. a \in Tokens
    BY <2>1, <2>2, <2>3 DEF Tokens
  <2>5. aged(t) = a
    BY <1>4 DEF aged, create_token
  <2>6. a.age = age /\ a.left = t.left - 1 /\ a.type = t.type
    OBVIOUS
  <2> HIDE DEF a, age
  <2>7. a.age + a.left <= t.age + t.left
    BY <2>2, <2>6
  <2>8. a.age + a.left \in Int /\ t.age + t.left \in Int
    BY <2>1, <2>2, <2>6
  <2> QED BY <1>2, <2>1, <2>4, <2>5, <2>6, <2>7, <2>8
<1> QED BY <1>3, <1>4

---------------------------------------------------------------------------
(* The steps.                                                              *)

\* Steps that only touch the cookies keep what is said of roles.
LEMMA RolesKept ==
    ASSUME AccountsInv, UNCHANGED <<role, req, stale>>,
           held' \in [Clients -> SUBSET Tokens], SessionsEnd', RefreshLife'
    PROVE  AccountsInv'
<1>1. TypeOK'
  BY DEF AccountsInv, TypeOK
<1>2. NoStaleRole' /\ NotOneself'
  BY DEF AccountsInv, NoStaleRole, NotOneself
<1>3. AdminRemains'
  BY DEF AccountsInv, AdminRemains, Admins
<1> QED BY <1>1, <1>2, <1>3 DEF AccountsInv

\* Steps that leave the cookies alone keep what is said of tokens.
LEMMA TokensKept ==
    ASSUME AccountsInv, UNCHANGED held
    PROVE  /\ held' \in [Clients -> SUBSET Tokens]
           /\ SessionsEnd'
           /\ RefreshLife'
BY DEF AccountsInv, TypeOK, SessionsEnd, RefreshLife

LEMMA LoginStep ==
    ASSUME AccountsInv, NEW c \in Clients, NEW u \in Users, login(c, u)
    PROVE  AccountsInv'
<1> DEFINE A == create_token(u, "access", ACCESS, 0)
           R == create_token(u, "refresh", REFRESH, 0)
<1>1. Bounded({A})
  BY NewToken, AccountsAssumption DEF Limit
<1>2. Bounded({R})
  BY NewToken, AccountsAssumption DEF Limit
<1>3. Bounded({A, R})
  BY <1>1, <1>2 DEF Bounded
<1>4. held' = [held EXCEPT ![c] = keep(c, {A, R})] /\ UNCHANGED <<role, req, stale>>
  BY DEF login
<1> HIDE DEF A, R
<1>5. Bounded(keep(c, {A, R}))
  BY <1>3, KeptTokens DEF AccountsInv
<1> QED BY <1>4, <1>5, CookiesReplaced, RolesKept DEF AccountsInv

LEMMA RefreshStep ==
    ASSUME AccountsInv, NEW c \in Clients, refresh(c)
    PROVE  AccountsInv'
<1>1. PICK t \in held[c] :
        /\ decode_token(t) /\ t.type = "refresh"
        /\ held' = [held EXCEPT ![c] =
             keep(c, {create_token(t.sub, "access", ACCESS, t.age)})]
        /\ UNCHANGED <<role, req, stale>>
  BY DEF refresh
<1>2. t \in Tokens /\ t.age + t.left <= REFRESH
  BY <1>1 DEF AccountsInv, TypeOK, RefreshLife
<1>3. t.sub \in Users /\ t.age \in 0..REFRESH
  BY <1>2, AccountsAssumption DEF Tokens, Limit
<1>4. ACCESS \in 0..REFRESH /\ ACCESS + t.age <= Limit
  BY <1>3, AccountsAssumption DEF Limit
<1> DEFINE A == create_token(t.sub, "access", ACCESS, t.age)
<1>5. Bounded({A})
  BY <1>3, <1>4, NewToken
<1> HIDE DEF A
<1>6. Bounded(keep(c, {A}))
  BY <1>5, KeptTokens DEF AccountsInv
<1>7. held' = [held EXCEPT ![c] = keep(c, {A})]
  BY <1>1 DEF A
<1> QED BY <1>1, <1>6, <1>7, CookiesReplaced, RolesKept DEF AccountsInv

LEMMA LogoutStep ==
    ASSUME AccountsInv, NEW c \in Clients, logout(c)
    PROVE  AccountsInv'
<1>1. Bounded({})
  BY DEF Bounded
<1>2. held' = [held EXCEPT ![c] = {}] /\ UNCHANGED <<role, req, stale>>
  BY DEF logout
<1> QED BY <1>1, <1>2, CookiesReplaced, RolesKept DEF AccountsInv

LEMMA TickStep ==
    ASSUME AccountsInv, tick
    PROVE  AccountsInv'
<1>1. held' = [c \in Clients |-> {aged(t) : t \in held[c]}]
      /\ UNCHANGED <<role, req, stale>>
  BY DEF tick
<1>2. ASSUME NEW c \in Clients
      PROVE  Bounded(held'[c])
  <2>1. Bounded(held[c])
    BY BoundedTokens DEF AccountsInv
  <2>2. Bounded({aged(t) : t \in held[c]})
    BY <2>1, AgedTokens
  <2> QED BY <1>1, <2>2
<1>3. held' \in [Clients -> SUBSET Tokens]
  BY <1>1, <1>2 DEF Bounded
<1>4. SessionsEnd' /\ RefreshLife'
  BY <1>2 DEF SessionsEnd, RefreshLife, Bounded, Limit
<1> QED BY <1>1, <1>3, <1>4, RolesKept

\* A change under way has one of the two places, and idle is none of them.
LEMMA ChangeIsNotIdle ==
    ASSUME NEW q \in {Idle} \cup Changes
    PROVE  /\ q = Idle <=> q.pc = "idle"
           /\ q # Idle => q \in Changes
<1>1. Idle.pc = "idle"
  BY DEF Idle
<1>2. q \in Changes => q.pc # "idle"
  BY DEF Changes
<1> QED BY <1>1, <1>2

\* The change of one client may be replaced by one whose author is an admin or
\* has lost the role since, and is not its subject.
LEMMA ChangeReplaced ==
    ASSUME AccountsInv, NEW c \in Clients, NEW q \in Changes,
           req' = [req EXCEPT ![c] = q], UNCHANGED <<role, held, stale>>,
           q.by # q.of, role[q.by] # Admin => q.before
    PROVE  AccountsInv'
<1>1. /\ held' \in [Clients -> SUBSET Tokens]
      /\ SessionsEnd'
      /\ RefreshLife'
  BY TokensKept
<1>2. \A d \in Clients : req'[d] = IF d = c THEN q ELSE req[d]
  BY DEF AccountsInv, TypeOK
<1>3. req' \in [Clients -> {Idle} \cup Changes]
  BY DEF AccountsInv, TypeOK
<1>4. TypeOK'
  BY <1>1, <1>3 DEF AccountsInv, TypeOK
<1>5. NoStaleRole'
  BY <1>2 DEF AccountsInv, NoStaleRole
<1>6. NotOneself'
  BY <1>2 DEF AccountsInv, NotOneself
<1>7. AdminRemains'
  BY DEF AccountsInv, AdminRemains, Admins
<1> QED BY <1>1, <1>4, <1>5, <1>6, <1>7 DEF AccountsInv

LEMMA AuthorisedStep ==
    ASSUME AccountsInv, NEW c \in Clients, authorised(c)
    PROVE  AccountsInv'
<1>1. PICK t \in get_current_user(c), u \in Users, new \in Roles :
        /\ require_role(t)
        /\ u # t.sub
        /\ req' = [req EXCEPT ![c] =
             [pc |-> "load", by |-> t.sub, of |-> u, new |-> new, old |-> new,
              before |-> FALSE]]
        /\ UNCHANGED <<role, held, stale>>
  BY DEF authorised
<1>2. t.sub \in Users /\ role[t.sub] = Admin
  BY <1>1 DEF get_current_user, require_role, AccountsInv, TypeOK, Tokens
<1> DEFINE q == [pc |-> "load", by |-> t.sub, of |-> u, new |-> new,
                 old |-> new, before |-> FALSE]
<1>3. q \in Changes /\ q.by = t.sub /\ q.of = u
  BY <1>2 DEF Changes
<1>4. req' = [req EXCEPT ![c] = q]
  BY <1>1
<1> HIDE DEF q
<1> QED BY <1>1, <1>2, <1>3, <1>4, ChangeReplaced

LEMMA LoadStep ==
    ASSUME AccountsInv, NEW c \in Clients, load_target(c)
    PROVE  AccountsInv'
<1> DEFINE r == req[c]
           q == [pc |-> "commit", by |-> r.by, of |-> r.of, new |-> r.new,
                 old |-> role[r.of], before |-> r.before]
<1>1. r \in {Idle} \cup Changes /\ r.pc = "load"
  BY DEF AccountsInv, TypeOK, load_target
<1>2. r \in Changes /\ r # Idle
  BY <1>1, ChangeIsNotIdle
<1>3. role[r.of] \in Roles
  BY <1>2 DEF AccountsInv, TypeOK, Changes
<1>4. q \in Changes
  BY <1>2, <1>3 DEF Changes
<1>5. q.by = r.by /\ q.of = r.of /\ q.before = r.before
  OBVIOUS
<1>6. req' = [req EXCEPT ![c] = q] /\ UNCHANGED <<role, held, stale>>
  BY DEF load_target
<1>7. r.by # r.of /\ (role[r.by] # Admin => r.before)
  BY <1>2 DEF AccountsInv, NotOneself, NoStaleRole
<1> HIDE DEF q, r
<1> QED BY <1>4, <1>5, <1>6, <1>7, ChangeReplaced

LEMMA AssignStep ==
    ASSUME AccountsInv, NEW c \in Clients, assign_role(c)
    PROVE  AccountsInv'
<1> DEFINE q == req[c]
           Marked(d) == [req[d] EXCEPT !.before = TRUE]
<1>1. /\ q.pc = "commit"
      /\ role' = IF q.old = q.new THEN role ELSE [role EXCEPT ![q.of] = q.new]
      /\ stale' = (stale \/ (role' # role /\ role[q.by] # Admin))
      /\ UNCHANGED held
  BY DEF assign_role
<1>2. q \in Changes /\ q # Idle
  <2>1. q \in {Idle} \cup Changes
    BY DEF AccountsInv, TypeOK
  <2> QED BY <1>1, <2>1, ChangeIsNotIdle
<1>3. q.by \in Users /\ q.of \in Users /\ q.new \in Roles /\ q.by # q.of
  BY <1>2 DEF Changes, AccountsInv, NotOneself
<1>4. role' \in [Users -> Roles]
  BY <1>1, <1>3 DEF AccountsInv, TypeOK
<1>5. role'[q.by] = role[q.by]
  BY <1>1, <1>3 DEF AccountsInv, TypeOK
<1>6. /\ req' \in [Clients -> {req'[d] : d \in Clients}]
      /\ \A d \in Clients :
           \/ d = c /\ req'[d] = Idle
           \/ d # c /\ req[d] # Idle /\ role'[req[d].by] # Admin
                   /\ req'[d] = Marked(d)
           \/ d # c /\ ~(req[d] # Idle /\ role'[req[d].by] # Admin)
                   /\ req'[d] = req[d]
  BY DEF assign_role
<1>7. ASSUME NEW d \in Clients, req[d] # Idle
      PROVE  /\ Marked(d) \in Changes
             /\ Marked(d).before = TRUE
             /\ Marked(d).by = req[d].by
             /\ Marked(d).of = req[d].of
  <2>1. req[d] \in Changes
    BY <1>7 DEF AccountsInv, TypeOK
  <2> QED BY <2>1 DEF Changes
<1> HIDE DEF Marked
<1>8. req' \in [Clients -> {Idle} \cup Changes]
  <2>1. ASSUME NEW d \in Clients
        PROVE  req'[d] \in {Idle} \cup Changes
    BY <1>6, <1>7 DEF AccountsInv, TypeOK
  <2> QED BY <1>6, <2>1
<1>9. /\ held' \in [Clients -> SUBSET Tokens]
      /\ SessionsEnd'
      /\ RefreshLife'
  BY <1>1, TokensKept
<1>10. TypeOK'
  <2>1. stale' \in BOOLEAN
    BY <1>1 DEF AccountsInv, TypeOK
  <2> QED BY <1>4, <1>8, <1>9, <2>1 DEF TypeOK
<1>11. NoStaleRole'
  BY <1>6, <1>7 DEF NoStaleRole
<1>12. NotOneself'
  <2>1. SUFFICES ASSUME NEW d \in Clients, req'[d] # Idle
                 PROVE  req'[d].by # req'[d].of
    BY DEF NotOneself, Idle
  <2>2. CASE req'[d] = req[d]
    BY <2>1, <2>2 DEF AccountsInv, NotOneself
  <2>3. CASE req[d] # Idle /\ req'[d] = Marked(d)
    <3>1. req[d].by # req[d].of
      BY <2>3 DEF AccountsInv, NotOneself
    <3>2. Marked(d).by = req[d].by /\ Marked(d).of = req[d].of
      BY <1>7, <2>3
    <3> QED BY <2>3, <3>1, <3>2
  <2> QED BY <1>6, <2>1, <2>2, <2>3
<1>13. AdminRemains'
  <2>1. SUFFICES ASSUME Admins' = {}, ~stale'
                 PROVE  FALSE
    BY <1>10 DEF AdminRemains, TypeOK
  <2>2. ~stale /\ (role' # role => role[q.by] = Admin)
    BY <1>1, <2>1
  <2>3. CASE role' = role
    BY <2>1, <2>2, <2>3 DEF AccountsInv, AdminRemains, Admins
  <2>4. CASE role' # role
    BY <1>3, <1>5, <2>1, <2>2, <2>4 DEF Admins
  <2> QED BY <2>3, <2>4
<1> QED BY <1>9, <1>10, <1>11, <1>12, <1>13 DEF AccountsInv

---------------------------------------------------------------------------
(* The theorems.                                                           *)

LEMMA InitInv == Init => AccountsInv
<1> SUFFICES ASSUME Init PROVE AccountsInv
  OBVIOUS
<1>1. TypeOK
  BY DEF Init, TypeOK
<1>2. SessionsEnd /\ RefreshLife
  BY DEF Init, SessionsEnd, RefreshLife
<1>3. NoStaleRole /\ NotOneself
  BY DEF Init, NoStaleRole, NotOneself
<1>4. AdminRemains
  BY DEF Init, AdminRemains, Admins
<1> QED BY <1>1, <1>2, <1>3, <1>4 DEF AccountsInv

LEMMA NextInv == AccountsInv /\ [Next]_vars => AccountsInv'
<1> SUFFICES ASSUME AccountsInv, [Next]_vars PROVE AccountsInv'
  OBVIOUS
<1>1. ASSUME NEW c \in Clients, NEW u \in Users, login(c, u)
      PROVE  AccountsInv'
  BY <1>1, LoginStep
<1>2. ASSUME NEW c \in Clients, refresh(c)
      PROVE  AccountsInv'
  BY <1>2, RefreshStep
<1>3. ASSUME NEW c \in Clients, logout(c)
      PROVE  AccountsInv'
  BY <1>3, LogoutStep
<1>4. ASSUME NEW c \in Clients, authorised(c)
      PROVE  AccountsInv'
  BY <1>4, AuthorisedStep
<1>5. ASSUME NEW c \in Clients, load_target(c)
      PROVE  AccountsInv'
  BY <1>5, LoadStep
<1>6. ASSUME NEW c \in Clients, assign_role(c)
      PROVE  AccountsInv'
  BY <1>6, AssignStep
<1>7. CASE tick
  BY <1>7, TickStep
<1>8. CASE UNCHANGED vars
  BY <1>8, TokensKept, RolesKept DEF vars
<1> QED BY <1>1, <1>2, <1>3, <1>4, <1>5, <1>6, <1>7, <1>8 DEF Next

\* For any accounts, clients and lifetimes, a session outlives neither the
\* refresh token it began with, by more than one access token, nor the role of
\* its account (create_token, refresh, require_role).
THEOREM SessionsHold == Spec => []SessionsAreSound
<1>1. AccountsInv => SessionsAreSound
  BY DEF AccountsInv, SessionsAreSound
<1> QED BY <1>1, InitInv, NextInv, PTL DEF Spec

\* For any number of admins and interleaved role changes, an admin remains
\* unless somebody's change was committed after their own demotion
\* (assign_role).
THEOREM AdminIsKept == Spec => []AdminRemains
<1>1. AccountsInv => AdminRemains
  BY DEF AccountsInv
<1> QED BY <1>1, InitInv, NextInv, PTL DEF Spec

---------------------------------------------------------------------------
(* First-generation runs.                                                  *)

ExecRow == [run : Runs, status : VALID, result : Nat]
ExecTasks == [run : Runs, status : Terminal,
              pc : {"queued", "finish", "ended", "lost"}]

\* The ledger's columns, and the two tables as sequences.
LedgerTypes ==
    /\ run \in [Runs -> {Absent} \cup [status : VALID]]
    /\ explore \in [Runs -> {"none", "queued", "running", "ended", "lost"}]
    /\ files \subseteq Runs \X {"login.feature", "test_login.py"}
    /\ failures \in 0..MaxFailures
    /\ execs \in Seq(ExecRow) /\ tasks \in Seq(ExecTasks)
    /\ Len(execs) <= MaxExecs /\ Len(tasks) = Len(execs)

\* A row and the task created with it are of one run.
RowsHaveTheirTask == \A i \in 1..Len(execs) : execs[i].run = tasks[i].run

\* What a row reports.
RowReports(i) ==
    IF execs[i].result = 0 THEN execs[i].status = "queued"
    ELSE /\ execs[i].result \in 1..Len(tasks)
         /\ tasks[execs[i].result].run = execs[i].run
         /\ tasks[execs[i].result].pc = "ended"
         /\ tasks[execs[i].result].status = execs[i].status
RowsReport == \A i \in 1..Len(execs) : RowReports(i)

\* A task that ended has finished some row of its run, and a finished row is
\* never unfinished again.
EndedAreTold ==
    \A i \in 1..Len(tasks) : tasks[i].pc = "ended" =>
      \E k \in 1..Len(execs) : execs[k].run = tasks[i].run /\ execs[k].result # 0

LedgerInv == LedgerTypes /\ RowsHaveTheirTask /\ RowsReport /\ EndedAreTold

LEMMA LedgerInit == ASSUME MaxExecs \in Nat, MaxFailures \in Nat, RunsInit
                    PROVE LedgerInv
<1>1. /\ execs \in Seq(ExecRow) /\ tasks \in Seq(ExecTasks)
      /\ Len(execs) = 0 /\ Len(tasks) = 0
  BY DEF RunsInit
<1>2. LedgerTypes
  BY <1>1 DEF RunsInit, LedgerTypes, Absent
<1> QED BY <1>1, <1>2 DEF LedgerInv, RowsHaveTheirTask, RowsReport, EndedAreTold

LEMMA CreateExecutionStep ==
    ASSUME MaxExecs \in Nat, MaxFailures \in Nat, LedgerInv,
           NEW r \in Runs, create_execution(r)
    PROVE  LedgerInv'
<1> DEFINE row == [run |-> r, status |-> "queued", result |-> 0]
           task == [run |-> r, pc |-> "queued", status |-> "failed"]
<1>1. row \in ExecRow /\ task \in ExecTasks
  BY DEF ExecRow, ExecTasks, VALID, Terminal
<1>2. /\ execs' = Append(execs, row) /\ tasks' = Append(tasks, task)
      /\ UNCHANGED <<run, explore, files, failures>> /\ Len(execs) < MaxExecs
  BY DEF create_execution, rvars
<1> HIDE DEF row, task
<1>t. /\ execs \in Seq(ExecRow) /\ tasks \in Seq(ExecTasks)
      /\ Len(execs) <= MaxExecs /\ Len(tasks) = Len(execs)
      /\ Len(execs) \in Nat
  BY DEF LedgerInv, LedgerTypes
<1>3. /\ execs' \in Seq(ExecRow) /\ tasks' \in Seq(ExecTasks)
      /\ Len(execs') = Len(execs) + 1 /\ Len(tasks') = Len(tasks) + 1
      /\ \A i \in 1..Len(execs) : execs'[i] = execs[i] /\ tasks'[i] = tasks[i]
      /\ execs'[Len(execs) + 1] = row /\ tasks'[Len(execs) + 1] = task
  BY <1>1, <1>2, <1>t
<1>4. \A i \in 1..Len(execs') : i \in 1..Len(execs) \/ i = Len(execs) + 1
  BY <1>3, <1>t
<1>5. LedgerTypes'
  BY <1>2, <1>3, <1>t DEF LedgerInv, LedgerTypes
<1>6. /\ row.run = r /\ row.result = 0 /\ row.status = "queued"
      /\ task.run = r /\ task.pc = "queued"
  BY DEF row, task
<1>7. RowsHaveTheirTask'
  BY <1>3, <1>4, <1>6 DEF LedgerInv, RowsHaveTheirTask
<1>8. RowsReport'
  <2>1. SUFFICES ASSUME NEW i \in 1..Len(execs') PROVE RowReports(i)'
    BY DEF RowsReport
  <2>2. CASE i = Len(execs) + 1
    BY <2>2, <1>3, <1>6 DEF RowReports
  <2>3. CASE i \in 1..Len(execs)
    <3>1. RowReports(i) /\ execs'[i] = execs[i]
      BY <2>3, <1>3 DEF LedgerInv, RowsReport
    <3> QED BY <3>1, <1>3, <1>t DEF RowReports
  <2> QED BY <2>2, <2>3, <1>4
<1>9. EndedAreTold'
  BY <1>3, <1>4, <1>6, <1>t DEF LedgerInv, EndedAreTold
<1> QED BY <1>5, <1>7, <1>8, <1>9 DEF LedgerInv

\* One task moves on and its run stays: the rows are as they were.
LEMMA RunExecutionStep ==
    ASSUME MaxExecs \in Nat, MaxFailures \in Nat, LedgerInv,
           NEW i \in 1..Len(tasks), run_execution(i)
    PROVE  LedgerInv'
<1>t. /\ execs \in Seq(ExecRow) /\ tasks \in Seq(ExecTasks)
      /\ Len(execs) <= MaxExecs /\ Len(tasks) = Len(execs)
      /\ Len(execs) \in Nat
  BY DEF LedgerInv, LedgerTypes
<1>1. PICK status \in Terminal :
        /\ tasks[i].pc = "queued"
        /\ tasks' = [tasks EXCEPT ![i].pc = "finish", ![i].status = status]
        /\ UNCHANGED <<run, explore, files, execs, failures>>
  BY DEF run_execution, rvars
<1> DEFINE new == [tasks[i] EXCEPT !.pc = "finish", !.status = status]
<1>2. tasks[i] \in ExecTasks
  BY <1>t
<1>3. new \in ExecTasks /\ new.run = tasks[i].run /\ new.pc = "finish"
  BY <1>2 DEF ExecTasks
<1>4. tasks' = [tasks EXCEPT ![i] = new]
  BY <1>1, <1>t
<1> HIDE DEF new
<1>5. /\ tasks' \in Seq(ExecTasks) /\ Len(tasks') = Len(tasks)
      /\ \A j \in 1..Len(tasks) : tasks'[j] = IF j = i THEN new ELSE tasks[j]
  BY <1>3, <1>4, <1>t
<1>6. LedgerTypes'
  BY <1>1, <1>5, <1>t DEF LedgerInv, LedgerTypes
<1>7. RowsHaveTheirTask'
  BY <1>1, <1>3, <1>5, <1>t DEF LedgerInv, RowsHaveTheirTask
<1>8. RowsReport'
  <2>1. SUFFICES ASSUME NEW j \in 1..Len(execs) PROVE RowReports(j)'
    BY <1>1 DEF RowsReport
  <2>2. RowReports(j)
    BY DEF LedgerInv, RowsReport
  <2> QED BY <2>2, <1>1, <1>5 DEF RowReports
<1>9. EndedAreTold'
  BY <1>1, <1>3, <1>5 DEF LedgerInv, EndedAreTold
<1> QED BY <1>6, <1>7, <1>8, <1>9 DEF LedgerInv

\* A task whose last write raised is dropped, and the rows are as they were.
LEMMA FinishWriteFailsStep ==
    ASSUME MaxExecs \in Nat, MaxFailures \in Nat, LedgerInv,
           NEW i \in 1..Len(tasks), finish_write_fails(i)
    PROVE  LedgerInv'
<1>t. /\ execs \in Seq(ExecRow) /\ tasks \in Seq(ExecTasks)
      /\ Len(execs) <= MaxExecs /\ Len(tasks) = Len(execs)
      /\ Len(execs) \in Nat
  BY DEF LedgerInv, LedgerTypes
<1>1. /\ tasks[i].pc = "finish" /\ failures < MaxFailures /\ failures' = failures + 1
      /\ tasks' = [tasks EXCEPT ![i].pc = "lost"]
      /\ UNCHANGED <<run, explore, files, execs>>
  BY DEF finish_write_fails, rvars
<1> DEFINE new == [tasks[i] EXCEPT !.pc = "lost"]
<1>2. tasks[i] \in ExecTasks
  BY <1>t
<1>3. new \in ExecTasks /\ new.run = tasks[i].run /\ new.pc = "lost"
  BY <1>2 DEF ExecTasks
<1>4. tasks' = [tasks EXCEPT ![i] = new]
  BY <1>1, <1>t
<1> HIDE DEF new
<1>5. /\ tasks' \in Seq(ExecTasks) /\ Len(tasks') = Len(tasks)
      /\ \A j \in 1..Len(tasks) : tasks'[j] = IF j = i THEN new ELSE tasks[j]
  BY <1>3, <1>4, <1>t
<1>6. LedgerTypes'
  <2>1. failures' \in 0..MaxFailures
    BY <1>1 DEF LedgerInv, LedgerTypes
  <2> QED BY <2>1, <1>1, <1>5, <1>t DEF LedgerInv, LedgerTypes
<1>7. RowsHaveTheirTask'
  BY <1>1, <1>3, <1>5, <1>t DEF LedgerInv, RowsHaveTheirTask
<1>8. RowsReport'
  <2>1. SUFFICES ASSUME NEW j \in 1..Len(execs) PROVE RowReports(j)'
    BY <1>1 DEF RowsReport
  <2>2. RowReports(j)
    BY DEF LedgerInv, RowsReport
  <2> QED BY <2>2, <1>1, <1>5 DEF RowReports
<1>9. EndedAreTold'
  BY <1>1, <1>3, <1>5 DEF LedgerInv, EndedAreTold
<1> QED BY <1>6, <1>7, <1>8, <1>9 DEF LedgerInv

\* The task that ends leaves its verdict in a row of its run; no other row
\* named it before.
LEMMA FinishExecutionStep ==
    ASSUME MaxExecs \in Nat, MaxFailures \in Nat, LedgerInv,
           NEW i \in 1..Len(tasks), finish_execution(i)
    PROVE  LedgerInv'
<1>t. /\ execs \in Seq(ExecRow) /\ tasks \in Seq(ExecTasks)
      /\ Len(execs) <= MaxExecs /\ Len(tasks) = Len(execs)
      /\ Len(execs) \in Nat
  BY DEF LedgerInv, LedgerTypes
<1>1. PICK k \in RowsOf(tasks[i].run) :
        /\ tasks[i].pc = "finish"
        /\ execs' = [execs EXCEPT ![k] =
             [@ EXCEPT !.status = tasks[i].status, !.result = i]]
        /\ tasks' = [tasks EXCEPT ![i].pc = "ended"]
        /\ UNCHANGED <<run, explore, files, failures>>
  BY DEF finish_execution, rvars
<1>2. k \in 1..Len(execs) /\ execs[k].run = tasks[i].run
  BY <1>1, <1>t DEF RowsOf
<1> DEFINE row == [execs[k] EXCEPT !.status = tasks[i].status, !.result = i]
           task == [tasks[i] EXCEPT !.pc = "ended"]
<1>3. tasks[i] \in ExecTasks /\ execs[k] \in ExecRow
  BY <1>2, <1>t
<1>4. /\ task \in ExecTasks /\ task.run = tasks[i].run /\ task.pc = "ended"
      /\ task.status = tasks[i].status
  BY <1>3 DEF ExecTasks
<1>5. tasks[i].status \in VALID /\ i \in Nat /\ i # 0
  BY <1>3, <1>t DEF ExecTasks, VALID, Terminal
<1>6. /\ row \in ExecRow /\ row.run = execs[k].run /\ row.result = i
      /\ row.status = tasks[i].status
  BY <1>3, <1>5 DEF ExecRow
<1>7. execs' = [execs EXCEPT ![k] = row] /\ tasks' = [tasks EXCEPT ![i] = task]
  BY <1>1, <1>2, <1>t
<1> HIDE DEF row, task
<1>8. /\ tasks' \in Seq(ExecTasks) /\ Len(tasks') = Len(tasks)
      /\ \A j \in 1..Len(tasks) : tasks'[j] = IF j = i THEN task ELSE tasks[j]
  BY <1>4, <1>7, <1>t
<1>9. /\ execs' \in Seq(ExecRow) /\ Len(execs') = Len(execs)
      /\ \A j \in 1..Len(execs) : execs'[j] = IF j = k THEN row ELSE execs[j]
  BY <1>2, <1>6, <1>7, <1>t
<1>10. LedgerTypes'
  BY <1>1, <1>8, <1>9, <1>t DEF LedgerInv, LedgerTypes
<1>11. RowsHaveTheirTask'
  BY <1>4, <1>6, <1>8, <1>9, <1>t DEF LedgerInv, RowsHaveTheirTask
<1>12. RowsReport'
  <2>1. SUFFICES ASSUME NEW j \in 1..Len(execs) PROVE RowReports(j)'
    BY <1>9 DEF RowsReport
  <2>2. CASE j = k
    BY <2>2, <1>2, <1>4, <1>5, <1>6, <1>8, <1>9 DEF RowReports
  <2>3. CASE j # k
    <3>1. RowReports(j) /\ execs'[j] = execs[j]
      BY <2>3, <1>9 DEF LedgerInv, RowsReport
    <3> QED BY <3>1, <1>1, <1>8 DEF RowReports
  <2> QED BY <2>2, <2>3
<1>13. EndedAreTold'
  <2>1. SUFFICES ASSUME NEW j \in 1..Len(tasks), tasks'[j].pc = "ended"
                 PROVE  \E m \in 1..Len(execs) : execs'[m].run = tasks'[j].run
                                                 /\ execs'[m].result # 0
    BY <1>8, <1>9 DEF EndedAreTold
  <2>2. CASE j = i
    BY <2>2, <1>2, <1>4, <1>5, <1>6, <1>8, <1>9
  <2>3. CASE j # i
    <3>1. tasks'[j] = tasks[j]
      BY <2>3, <1>8
    <3>2. PICK m \in 1..Len(execs) : execs[m].run = tasks[j].run
                                     /\ execs[m].result # 0
      BY <2>1, <3>1 DEF LedgerInv, EndedAreTold
    <3>3. execs'[m].run = tasks[j].run /\ execs'[m].result # 0
      BY <3>2, <1>2, <1>5, <1>6, <1>9
    <3> QED BY <3>1, <3>3
  <2> QED BY <2>2, <2>3
<1> QED BY <1>10, <1>11, <1>12, <1>13 DEF LedgerInv

\* A crash drops tasks, and none that had ended.
LEMMA ApiCrashStep ==
    ASSUME MaxExecs \in Nat, MaxFailures \in Nat, LedgerInv, api_crashes
    PROVE  LedgerInv'
<1>t. /\ execs \in Seq(ExecRow) /\ tasks \in Seq(ExecTasks)
      /\ Len(execs) <= MaxExecs /\ Len(tasks) = Len(execs)
      /\ Len(execs) \in Nat /\ DOMAIN tasks = 1..Len(tasks)
  BY DEF LedgerInv, LedgerTypes
<1>1. /\ failures < MaxFailures /\ failures' = failures + 1
      /\ explore' = [r \in Runs |-> IF explore[r] \in {"none", "ended"}
                                    THEN explore[r] ELSE "lost"]
      /\ UNCHANGED <<run, files, execs>>
  BY DEF api_crashes
<1> DEFINE after(i) == IF tasks[i].pc = "ended" THEN tasks[i]
                       ELSE [tasks[i] EXCEPT !.pc = "lost"]
<1>2. tasks' = [i \in 1..Len(tasks) |-> after(i)]
  BY <1>t DEF api_crashes
<1>3. ASSUME NEW i \in 1..Len(tasks)
      PROVE  /\ after(i) \in ExecTasks
             /\ after(i).run = tasks[i].run
             /\ after(i).pc = "ended" <=> tasks[i].pc = "ended"
             /\ tasks[i].pc = "ended" => after(i) = tasks[i]
  <2>1. tasks[i] \in ExecTasks
    BY <1>t
  <2> QED BY <2>1 DEF ExecTasks
<1> HIDE DEF after
<1>4. /\ tasks' \in Seq(ExecTasks) /\ Len(tasks') = Len(tasks)
      /\ \A i \in 1..Len(tasks) : tasks'[i] = after(i)
  BY <1>2, <1>3, <1>t
<1>5. explore' \in [Runs -> {"none", "queued", "running", "ended", "lost"}]
  BY <1>1 DEF LedgerInv, LedgerTypes
<1>6. failures' \in 0..MaxFailures
  BY <1>1 DEF LedgerInv, LedgerTypes
<1>7. LedgerTypes'
  BY <1>1, <1>4, <1>5, <1>6, <1>t DEF LedgerInv, LedgerTypes
<1>8. RowsHaveTheirTask'
  BY <1>1, <1>3, <1>4, <1>t DEF LedgerInv, RowsHaveTheirTask
<1>9. RowsReport'
  <2>1. SUFFICES ASSUME NEW j \in 1..Len(execs) PROVE RowReports(j)'
    BY <1>1 DEF RowsReport
  <2>2. RowReports(j)
    BY DEF LedgerInv, RowsReport
  <2> QED BY <2>2, <1>1, <1>3, <1>4 DEF RowReports
<1>10. EndedAreTold'
  BY <1>1, <1>3, <1>4 DEF LedgerInv, EndedAreTold
<1> QED BY <1>7, <1>8, <1>9, <1>10 DEF LedgerInv

\* What leaves the executions and their tasks alone keeps all but the types
\* of the runs, which it may change.
LEMMA TablesStay ==
    ASSUME LedgerInv, UNCHANGED <<execs, tasks>>, failures' \in 0..MaxFailures,
           run' \in [Runs -> {Absent} \cup [status : VALID]],
           explore' \in [Runs -> {"none", "queued", "running", "ended", "lost"}],
           files' \subseteq Runs \X {"login.feature", "test_login.py"}
    PROVE  LedgerInv'
<1>1. LedgerTypes'
  BY DEF LedgerInv, LedgerTypes
<1>2. RowsHaveTheirTask' /\ EndedAreTold'
  BY DEF LedgerInv, RowsHaveTheirTask, EndedAreTold
<1>3. RowsReport'
  BY DEF LedgerInv, RowsReport, RowReports
<1> QED BY <1>1, <1>2, <1>3 DEF LedgerInv

\* Exploring and generating: a run has a row before its status is set.
LEMMA RunStep ==
    ASSUME MaxFailures \in Nat, LedgerInv, NEW r \in Runs,
           \/ create_run(r) \/ RunTask(r) \/ generate_bdd(r)
           \/ generate_scripts(r)
    PROVE  LedgerInv'
<1>t. /\ run \in [Runs -> {Absent} \cup [status : VALID]]
      /\ explore \in [Runs -> {"none", "queued", "running", "ended", "lost"}]
      /\ files \subseteq Runs \X {"login.feature", "test_login.py"}
      /\ failures \in 0..MaxFailures
  BY DEF LedgerInv, LedgerTypes
<1>1. ASSUME NEW status, set_status(r, status)
      PROVE  run' \in [Runs -> {Absent} \cup [status : VALID]]
  <2>1. run[r] \in [status : VALID] /\ status \in VALID
    BY <1>1, <1>t DEF set_status
  <2>2. [run[r] EXCEPT !.status = status] \in [status : VALID]
    BY <2>1
  <2>3. run' = [run EXCEPT ![r] = [run[r] EXCEPT !.status = status]]
    BY <1>1, <1>t DEF set_status
  <2> QED BY <2>2, <2>3, <1>t
<1>2. CASE create_run(r)
  <2>1. [status |-> "queued"] \in [status : VALID]
    BY DEF VALID
  <2>2. run' \in [Runs -> {Absent} \cup [status : VALID]]
    BY <1>2, <2>1, <1>t DEF create_run
  <2>3. /\ explore' \in [Runs -> {"none", "queued", "running", "ended", "lost"}]
        /\ UNCHANGED <<files, execs, tasks, failures>>
    BY <1>2, <1>t DEF create_run, evars
  <2> QED BY <2>2, <2>3, <1>t, TablesStay
<1>3. CASE explore_starts(r)
  <2>1. run' \in [Runs -> {Absent} \cup [status : VALID]]
    BY <1>1, <1>3 DEF explore_starts
  <2>2. /\ explore' \in [Runs -> {"none", "queued", "running", "ended", "lost"}]
        /\ UNCHANGED <<files, execs, tasks, failures>>
    BY <1>3, <1>t DEF explore_starts, evars
  <2> QED BY <2>1, <2>2, <1>t, TablesStay
<1>4. CASE explore_ends(r)
  <2>1. run' \in [Runs -> {Absent} \cup [status : VALID]]
    BY <1>1, <1>4 DEF explore_ends
  <2>2. /\ explore' \in [Runs -> {"none", "queued", "running", "ended", "lost"}]
        /\ UNCHANGED <<files, execs, tasks, failures>>
    BY <1>4, <1>t DEF explore_ends, evars
  <2> QED BY <2>1, <2>2, <1>t, TablesStay
<1>5. CASE generate_bdd(r)
  <2>1. /\ files' \subseteq Runs \X {"login.feature", "test_login.py"}
        /\ UNCHANGED <<run, explore, execs, tasks, failures>>
    BY <1>5, <1>t DEF generate_bdd, evars, rvars
  <2> QED BY <2>1, <1>t, TablesStay
<1>6. CASE generate_scripts(r)
  <2>1. /\ files' \subseteq Runs \X {"login.feature", "test_login.py"}
        /\ UNCHANGED <<run, explore, execs, tasks, failures>>
    BY <1>6, <1>t DEF generate_scripts, evars, rvars
  <2> QED BY <2>1, <1>t, TablesStay
<1>7. CASE explore_write_fails(r)
  <2>1. /\ explore' \in [Runs -> {"none", "queued", "running", "ended", "lost"}]
        /\ failures' \in 0..MaxFailures
        /\ UNCHANGED <<run, files, execs, tasks>>
    BY <1>7, <1>t DEF explore_write_fails, evars
  <2> QED BY <2>1, <1>t, TablesStay
<1> QED BY <1>2, <1>3, <1>4, <1>5, <1>6, <1>7 DEF RunTask

LEMMA LedgerStep ==
    ASSUME MaxExecs \in Nat, MaxFailures \in Nat, LedgerInv, [RunsNext]_runsVars
    PROVE  LedgerInv'
<1>1. CASE UNCHANGED runsVars
  BY <1>1, TablesStay DEF runsVars, LedgerInv, LedgerTypes
<1>2. CASE api_crashes
  BY <1>2, ApiCrashStep
<1>3. ASSUME NEW i \in DOMAIN tasks, ExecTask(i)
      PROVE  LedgerInv'
  <2>1. i \in 1..Len(tasks)
    BY DEF LedgerInv, LedgerTypes
  <2> QED BY <2>1, <1>3, RunExecutionStep, FinishExecutionStep,
            FinishWriteFailsStep DEF ExecTask
<1>4. ASSUME NEW r \in Runs,
             \/ create_run(r) \/ RunTask(r) \/ generate_bdd(r)
             \/ generate_scripts(r) \/ create_execution(r)
      PROVE  LedgerInv'
  BY <1>4, RunStep, CreateExecutionStep
<1> QED BY <1>1, <1>2, <1>3, <1>4 DEF RunsNext

\* A run that was executed once has one row, and the task that ended is the
\* one created with it.
LEMMA LedgerTells ==
    ASSUME LedgerInv, MaxExecs \in Nat
    PROVE  RowsMatchExecutions
<1>t. /\ execs \in Seq(ExecRow) /\ tasks \in Seq(ExecTasks)
      /\ Len(execs) <= MaxExecs /\ Len(tasks) = Len(execs)
      /\ Len(execs) \in Nat
      /\ DOMAIN execs = 1..Len(execs) /\ DOMAIN tasks = 1..Len(execs)
  BY DEF LedgerInv, LedgerTypes
<1>r. \A i \in 1..Len(execs) : RowReports(i) /\ execs[i] \in ExecRow
  BY <1>t DEF LedgerInv, RowsReport
<1>1. RunsTypeOK
  <2>1. \A i \in DOMAIN execs :
          execs[i] \in [run : Runs, status : VALID, result : 0..Len(tasks)]
    BY <1>t, <1>r DEF RowReports, ExecRow
  <2>2. \A i \in DOMAIN tasks : tasks[i] \in ExecTasks
    BY <1>t
  <2> QED BY <2>1, <2>2, <1>t DEF RunsTypeOK, LedgerInv, LedgerTypes, ExecTasks
<1>2. RowsReportTheirRun
  BY <1>t, <1>r DEF RowsReportTheirRun, RowReports
<1>3. ASSUME NEW r \in Runs, NEW i \in TasksOf(r), tasks[i].pc = "ended"
      PROVE  /\ get_status_by_run_id(r) \cap Terminal # {}
             /\ TasksOf(r) = {i} =>
                  get_status_by_run_id(r) = {tasks[i].status}
  <2>1. i \in 1..Len(execs) /\ tasks[i].run = r
    BY <1>t DEF TasksOf
  <2>2. PICK k \in 1..Len(execs) : execs[k].run = r /\ execs[k].result # 0
    BY <1>3, <2>1, <1>t DEF LedgerInv, EndedAreTold
  <2>3. k \in RowsOf(r) /\ i \in RowsOf(r)
    BY <2>1, <2>2, <1>t DEF RowsOf, LedgerInv, RowsHaveTheirTask
  <2>4. get_status_by_run_id(r) = {execs[j].status : j \in RowsOf(r)}
    BY <2>3 DEF get_status_by_run_id
  <2>5. /\ execs[k].result \in 1..Len(execs) /\ tasks[execs[k].result].run = r
        /\ tasks[execs[k].result].status = execs[k].status
    BY <2>2, <1>r, <1>t DEF RowReports
  <2>6. execs[k].status \in Terminal
    <3>1. tasks[execs[k].result] \in ExecTasks
      BY <2>5, <1>t
    <3> QED BY <3>1, <2>5 DEF ExecTasks
  <2>7. ASSUME TasksOf(r) = {i}
        PROVE  get_status_by_run_id(r) = {tasks[i].status}
    <3>1. RowsOf(r) = TasksOf(r)
      BY <1>t DEF RowsOf, TasksOf, LedgerInv, RowsHaveTheirTask
    <3>2. RowsOf(r) = {i}
      BY <3>1, <2>7
    <3>3. execs[k].result \in RowsOf(r)
      BY <2>5, <1>t DEF RowsOf, LedgerInv, RowsHaveTheirTask
    <3>4. k = i /\ execs[k].result = i
      BY <2>3, <3>2, <3>3
    <3>5. get_status_by_run_id(r) = {execs[i].status}
      BY <2>4, <3>2, <3>4
    <3> QED BY <3>5, <3>4, <2>5
  <2> QED BY <2>3, <2>4, <2>6, <2>7
<1>4. EndedExecutionsAreReported
  <2> SUFFICES ASSUME NEW r \in Runs
               PROVE  LET ended == {i \in TasksOf(r) : tasks[i].pc = "ended"} IN
                      /\ ended # {} => get_status_by_run_id(r) \cap Terminal # {}
                      /\ \A i \in ended : TasksOf(r) = {i} =>
                           get_status_by_run_id(r) = {tasks[i].status}
    BY Zenon DEF EndedExecutionsAreReported
  <2>1. \A i \in TasksOf(r) : tasks[i].pc = "ended" =>
          /\ get_status_by_run_id(r) \cap Terminal # {}
          /\ TasksOf(r) = {i} =>
               get_status_by_run_id(r) = {tasks[i].status}
    BY <1>3
  <2> QED BY <2>1, Zenon
<1> QED BY <1>1, <1>2, <1>4 DEF RowsMatchExecutions

\* For any runs, any number of executions and any failures of the api, a row
\* that tells an end tells the end of an execution of its own run; once an
\* execution of a run has ended the poll of the run can tell an end, and of the
\* only execution of a run it tells how that one ended (create_execution,
\* finish_execution, get_status_by_run_id).
THEOREM RowsMatchTheorem == RunsSpec => []RowsMatchExecutions
<1> USE RunLedgerAssumption
<1>1. RunsInit => LedgerInv
  BY LedgerInit
<1>2. LedgerInv /\ [RunsNext]_runsVars => LedgerInv'
  BY LedgerStep
<1>3. LedgerInv => RowsMatchExecutions
  BY LedgerTells
<1> QED BY <1>1, <1>2, <1>3, PTL DEF RunsSpec

---------------------------------------------------------------------------
(* Traceability.                                                           *)

\* Every row of the chain of an entry that pins a run is of that run.
LEMMA RunPins ==
    ASSUME NEW db, NEW mined, NEW entry, NEW id, NEW r, NEW flows, NEW R, R = {r},
           r # None, _resolve_keys(db, entry, id) = Pins(r, flows)
    PROVE  /\ chain(db, mined, entry, id).executions =
                segment(db.results, R, flows)
           /\ chain(db, mined, entry, id).artifacts =
                segment(db.artifacts, R, flows)
           /\ chain(db, mined, entry, id).defects =
                segment(db.defects, R, flows)
<1> DEFINE keys == Pins(r, flows)
           scenarios == {s \in db.scenarios :
                           /\ keys.flows = {} \/ s.flow \in keys.flows
                           /\ keys.run = None \/ s.run = keys.run}
           runs == {s.run : s \in scenarios} \cup ({keys.run} \ {None})
<1>1. keys.run = r /\ keys.flows = flows /\ Pins(None, {}).run = None
  BY DEF Pins
<1>2. keys # Pins(None, {})
  BY <1>1 DEF Pins
<1>3. runs = R
  BY <1>1
<1>4. chain(db, mined, entry, id) =
        [flow |-> _flow_segment(mined, keys.flows),
         scenarios |-> scenarios,
         scripts |-> {s.run : s \in scenarios},
         executions |-> segment(db.results, runs, keys.flows),
         artifacts |-> segment(db.artifacts, runs, keys.flows),
         defects |-> segment(db.defects, runs, keys.flows)]
  BY <1>2, Zenon DEF chain
<1> HIDE DEF keys, scenarios, runs
<1> QED BY <1>1, <1>3, <1>4

LEMMA ChainNesting ==
    ASSUME NEW db, NEW mined, SoundDatabase(db)
    PROVE  ChainsNestIn(db, mined)
<1> SUFFICES ASSUME NEW d \in db.defects
             PROVE  LET mine == chain(db, mined, "defect", d.id)
                        runs == chain(db, mined, "run", d.run)
                    IN /\ d \in mine.defects
                       /\ mine.executions = {r \in db.results :
                                               r.run = d.run /\ r.flow = d.flow}
                       /\ \A s \in {"executions", "artifacts", "defects"} :
                            mine[s] \subseteq runs[s]
  BY Zenon DEF ChainsNestIn
<1> DEFINE mine == chain(db, mined, "defect", d.id)
           runs == chain(db, mined, "run", d.run)
           flows == {r.flow : r \in {x \in db.results : x.run = d.run}}
           R == {d.run}
           F == {d.flow}
<1>1. d.run # None
  BY DEF SoundDatabase
<1>2. (CHOOSE r \in db.defects : r.id = d.id) = d
  <2>1. \A r \in db.defects : r.id = d.id <=> r = d
    BY DEF SoundDatabase
  <2> QED BY <2>1
<1>3. _resolve_keys(db, "defect", d.id) = Pins(d.run, F)
  BY <1>2 DEF _resolve_keys
<1>4. _resolve_keys(db, "run", d.run) = Pins(d.run, flows)
  BY DEF _resolve_keys
<1>5. d.flow \in flows
  BY DEF SoundDatabase
<1>a. R = {d.run} /\ F = {d.flow}
  OBVIOUS
<1> HIDE DEF flows, R, F
<1>b. ASSUME NEW entry, NEW id, NEW fl,
             _resolve_keys(db, entry, id) = Pins(d.run, fl)
      PROVE  /\ chain(db, mined, entry, id).executions = segment(db.results, R, fl)
             /\ chain(db, mined, entry, id).artifacts = segment(db.artifacts, R, fl)
             /\ chain(db, mined, entry, id).defects = segment(db.defects, R, fl)
  BY <1>1, <1>a, <1>b, RunPins
<1>6. /\ mine.executions = segment(db.results, R, F)
      /\ mine.artifacts = segment(db.artifacts, R, F)
      /\ mine.defects = segment(db.defects, R, F)
  BY <1>3, <1>b
<1>7. /\ runs.executions = segment(db.results, R, flows)
      /\ runs.artifacts = segment(db.artifacts, R, flows)
      /\ runs.defects = segment(db.defects, R, flows)
  BY <1>4, <1>b
<1>8. \A rows : segment(rows, R, F) \subseteq segment(rows, R, flows)
  BY <1>5, <1>a DEF segment
<1> HIDE DEF mine, runs
<1>9. d \in mine.defects
  BY <1>6, <1>a DEF segment
<1>10. mine.executions = {r \in db.results : r.run = d.run /\ r.flow = d.flow}
  BY <1>6, <1>a DEF segment
<1>11. /\ mine.executions \subseteq runs.executions
       /\ mine.artifacts \subseteq runs.artifacts
       /\ mine.defects \subseteq runs.defects
  BY <1>6, <1>7, <1>8
<1> QED BY <1>9, <1>10, <1>11 DEF mine, runs

---------------------------------------------------------------------------
(* Search.                                                                 *)

\* What a put leaves in the index.
LEMMA PutIs ==
    ASSUME NEW index, NEW docs
    PROVE  /\ DOMAIN put(index, docs) = DOMAIN index \cup DOMAIN docs
           /\ \A k \in DOMAIN docs : put(index, docs)[k] = docs[k]
           /\ \A k \in DOMAIN index \ DOMAIN docs : put(index, docs)[k] = index[k]
BY DEF put

LEMMA DocumentsAre ==
    ASSUME NEW index, NEW rows, NEW fields
    PROVE  /\ DOMAIN Documents(index, rows, fields) =
                {<<index, r.run, r.flow>> : r \in rows}
           /\ \A k \in DOMAIN Documents(index, rows, fields) :
                Documents(index, rows, fields)[k] = fields
BY DEF Documents

\* A backfill leaves these fields, whatever the index held before.
Executed == {"verdict", "error_text"}
Filed == {"classification", "fingerprint", "confidence", "jira_key"}

LEMMA BackfillIs ==
    ASSUME NEW index, NEW db
    PROVE  /\ DOMAIN backfill(index, db) = DOMAIN index \cup Ids(db)
           /\ \A r \in db.results :
                backfill(index, db)[<<"executions", r.run, r.flow>>] = Executed
           /\ \A d \in db.defects :
                backfill(index, db)[<<"failures", d.run, d.flow>>] = Filed
<1> DEFINE E == Documents("executions", db.results, Executed)
           C == Documents("failures", db.defects,
                  {"classification", "confidence", "error_text", "evidence_text"})
           F == Documents("failures", db.defects, Filed)
           e == {<<"executions", r.run, r.flow>> : r \in db.results}
           f == {<<"failures", d.run, d.flow>> : d \in db.defects}
<1>1. backfill(index, db) = put(put(put(index, E), C), F)
  BY Zenon DEF backfill, Executed, Filed
<1>2. /\ DOMAIN E = e /\ DOMAIN C = f /\ DOMAIN F = f
      /\ \A k \in e : E[k] = Executed
      /\ \A k \in f : F[k] = Filed
  BY DocumentsAre
<1>3. Ids(db) = e \cup f
  BY DEF Ids
<1>4. \A k \in e : k \notin f
  OBVIOUS
<1> HIDE DEF E, C, F, e, f
<1>a. DOMAIN put(index, E) = DOMAIN index \cup DOMAIN E
  BY PutIs, Zenon
<1>b. DOMAIN put(put(index, E), C) = DOMAIN put(index, E) \cup DOMAIN C
  BY PutIs, Zenon
<1>c. DOMAIN put(put(put(index, E), C), F) =
        DOMAIN put(put(index, E), C) \cup DOMAIN F
  BY PutIs, Zenon
<1>5. DOMAIN backfill(index, db) = DOMAIN index \cup Ids(db)
  BY <1>1, <1>2, <1>3, <1>a, <1>b, <1>c
<1>e. \A k \in DOMAIN E : put(index, E)[k] = E[k]
  BY PutIs, Zenon
<1>d. \A k \in DOMAIN F : put(put(put(index, E), C), F)[k] = F[k]
  BY PutIs, Zenon
<1>6. \A k \in f : backfill(index, db)[k] = Filed
  BY <1>1, <1>2, <1>d
<1>7. \A k \in e : backfill(index, db)[k] = Executed
  <2> SUFFICES ASSUME NEW k \in e
               PROVE  backfill(index, db)[k] = Executed
    OBVIOUS
  <2>1. put(index, E)[k] = Executed /\ k \in DOMAIN put(index, E)
    <3>1. k \in DOMAIN E /\ E[k] = Executed
      BY <1>2
    <3> QED BY <3>1, <1>a, <1>e
  <2>2. put(put(index, E), C)[k] = Executed /\ k \in DOMAIN put(put(index, E), C)
    <3>1. k \in DOMAIN put(index, E) \ DOMAIN C
      BY <2>1, <1>2, <1>4
    <3>2. put(put(index, E), C)[k] = put(index, E)[k]
      BY <3>1, PutIs, Zenon
    <3> QED BY <3>1, <3>2, <2>1, <1>b
  <2>3. k \in DOMAIN put(put(index, E), C) \ DOMAIN F
    BY <2>2, <1>2, <1>4
  <2>4. put(put(put(index, E), C), F)[k] = put(put(index, E), C)[k]
    BY <2>3, PutIs, Zenon
  <2> QED BY <2>2, <2>4, <1>1
<1> QED BY <1>5, <1>6, <1>7 DEF e, f

\* A backfill ends in a function of the ids alone.
LEMMA BackfillIsFunction ==
    ASSUME NEW index, NEW db
    PROVE  backfill(index, db) =
             [k \in DOMAIN backfill(index, db) |-> backfill(index, db)[k]]
BY DEF backfill, put

LEMMA Refilling ==
    ASSUME NEW db, NEW index
    PROVE  LosesOnlyFailureText(db, index)
<1> DEFINE once == backfill(<<>>, db)
           again == backfill(index, db)
<1>1. DOMAIN once = Ids(db)
  <2>1. DOMAIN once = DOMAIN <<>> \cup Ids(db)
    BY BackfillIs, Zenon
  <2>2. DOMAIN <<>> = {}
    OBVIOUS
  <2> QED BY <2>1, <2>2
<1>2. /\ \A r \in db.results : once[<<"executions", r.run, r.flow>>] = Executed
      /\ \A d \in db.defects : once[<<"failures", d.run, d.flow>>] = Filed
  BY BackfillIs
<1>3. ASSUME NEW r \in db.results,
             NEW k \in DOMAIN index_execution(<<>>, r)
      PROVE  index_execution(<<>>, r)[k] \ {} \subseteq once[k]
  <2> DEFINE docs == Documents("executions", {r}, {"verdict", "error_text"})
  <2>1. DOMAIN docs = {<<"executions", r.run, r.flow>>}
        /\ \A j \in DOMAIN docs : docs[j] = Executed
    <3>1. /\ DOMAIN docs = {<<"executions", x.run, x.flow>> : x \in {r}}
          /\ \A j \in DOMAIN docs : docs[j] = Executed
      BY DocumentsAre, Zenon DEF Executed
    <3> HIDE DEF docs
    <3> QED BY <3>1
  <2>2. index_execution(<<>>, r) = put(<<>>, docs)
    BY DEF index_execution
  <2> HIDE DEF docs, once
  <2>3. k = <<"executions", r.run, r.flow>> /\ put(<<>>, docs)[k] = Executed
    <3>1. /\ DOMAIN put(<<>>, docs) = DOMAIN <<>> \cup DOMAIN docs
          /\ \A j \in DOMAIN docs : put(<<>>, docs)[j] = docs[j]
      BY PutIs, Zenon
    <3>2. DOMAIN <<>> = {}
      OBVIOUS
    <3> QED BY <3>1, <3>2, <2>1, <2>2
  <2> QED BY <2>2, <2>3, <1>2
<1>4. ASSUME NEW d \in db.defects,
             NEW k \in DOMAIN index_failure(<<>>, d)
      PROVE  index_failure(<<>>, d)[k] \ _SEARCH_FIELDS \subseteq once[k]
  <2> DEFINE fields == {"classification", "fingerprint", "confidence",
                        "error_text"}
             docs == Documents("failures", {d}, fields)
  <2>1. DOMAIN docs = {<<"failures", d.run, d.flow>>}
        /\ \A j \in DOMAIN docs : docs[j] = fields
    <3> HIDE DEF fields
    <3>1. /\ DOMAIN docs = {<<"failures", x.run, x.flow>> : x \in {d}}
          /\ \A j \in DOMAIN docs : docs[j] = fields
      BY DocumentsAre, Zenon
    <3> HIDE DEF docs
    <3> QED BY <3>1
  <2>2. index_failure(<<>>, d) = put(<<>>, docs)
    BY DEF index_failure
  <2>3. fields \ _SEARCH_FIELDS \subseteq Filed
    BY DEF Filed, _SEARCH_FIELDS
  <2> HIDE DEF docs, once, fields
  <2>4. k = <<"failures", d.run, d.flow>> /\ put(<<>>, docs)[k] = fields
    <3>1. /\ DOMAIN put(<<>>, docs) = DOMAIN <<>> \cup DOMAIN docs
          /\ \A j \in DOMAIN docs : put(<<>>, docs)[j] = docs[j]
      BY PutIs, Zenon
    <3>2. DOMAIN <<>> = {}
      OBVIOUS
    <3> QED BY <3>1, <3>2, <2>1, <2>2
  <2> QED BY <2>2, <2>3, <2>4, <1>2
<1>5. ASSUME DOMAIN index \subseteq Ids(db)
      PROVE  again = once
  <2>1. DOMAIN again = Ids(db)
    BY <1>5, BackfillIs
  <2>2. \A k \in Ids(db) : again[k] = once[k]
    <3>1. /\ \A r \in db.results : again[<<"executions", r.run, r.flow>>] = Executed
          /\ \A d \in db.defects : again[<<"failures", d.run, d.flow>>] = Filed
      BY BackfillIs
    <3> HIDE DEF once, again
    <3> QED BY <1>2, <3>1 DEF Ids
  <2>3. /\ once = [k \in DOMAIN once |-> once[k]]
        /\ again = [k \in DOMAIN again |-> again[k]]
    BY BackfillIsFunction
  <2> HIDE DEF once, again
  <2> QED BY <2>1, <2>2, <2>3, <1>1
<1>6. ASSUME NEW d \in db.defects
      PROVE  search(index_failure(<<>>, d)) # {}
  <2> DEFINE fields == {"classification", "fingerprint", "confidence",
                        "error_text"}
             docs == Documents("failures", {d}, fields)
             k == <<"failures", d.run, d.flow>>
  <2>1. fields \cap _SEARCH_FIELDS # {}
    BY DEF _SEARCH_FIELDS
  <2>2. index_failure(<<>>, d) = put(<<>>, docs)
    BY DEF index_failure
  <2> HIDE DEF fields
  <2>3. /\ DOMAIN docs = {<<"failures", x.run, x.flow>> : x \in {d}}
        /\ \A j \in DOMAIN docs : docs[j] = fields
    BY DocumentsAre, Zenon
  <2> HIDE DEF docs
  <2>4. k \in DOMAIN docs /\ docs[k] = fields
    BY <2>3
  <2>5. k \in DOMAIN put(<<>>, docs) /\ put(<<>>, docs)[k] = docs[k]
    <3>1. /\ DOMAIN put(<<>>, docs) = DOMAIN <<>> \cup DOMAIN docs
          /\ \A j \in DOMAIN docs : put(<<>>, docs)[j] = docs[j]
      BY PutIs, Zenon
    <3> QED BY <2>4, <3>1
  <2>6. PICK index1 : index1 = put(<<>>, docs)
    OBVIOUS
  <2>7. k \in search(index1)
    BY <2>1, <2>4, <2>5, <2>6 DEF search
  <2> QED BY <2>2, <2>6, <2>7, Zenon
<1>7. search(once) = {<<"executions", r.run, r.flow>> : r \in db.results}
  <2>1. Executed \cap _SEARCH_FIELDS # {} /\ Filed \cap _SEARCH_FIELDS = {}
    BY DEF Executed, Filed, _SEARCH_FIELDS
  <2>2. PICK index1 : index1 = once
    OBVIOUS
  <2> HIDE DEF once
  <2>3. search(index1) = {<<"executions", r.run, r.flow>> : r \in db.results}
    BY <1>1, <1>2, <2>1, <2>2 DEF search, Ids
  <2> QED BY <2>2, <2>3, Zenon
<1> QED BY <1>1, <1>3, <1>4, <1>5, <1>6, <1>7 DEF LosesOnlyFailureText

---------------------------------------------------------------------------
(* Coverage.                                                               *)

LEMMA DivBounds ==
    ASSUME NEW a \in Nat, NEW t \in Nat \ {0}
    PROVE  a \div t \in Nat /\ t * (a \div t) <= a /\ a < t * (a \div t) + t
OBVIOUS

\* A larger part is no smaller a percentage.
LEMMA PercentGrows ==
    ASSUME NEW n \in Nat, NEW m \in Nat, NEW t \in Nat, n <= m
    PROVE  percent(n, t) <= percent(m, t)
<1>1. CASE t = 0
  BY <1>1 DEF percent
<1>2. CASE t # 0
  <2> DEFINE x == (1000 * n) \div t
             y == (1000 * m) \div t
  <2>1. x \in Nat /\ y \in Nat /\ t * x <= 1000 * n /\ 1000 * m < t * y + t
    BY <1>2, DivBounds
  <2>2. percent(n, t) = x /\ percent(m, t) = y
    BY <1>2 DEF percent
  <2> HIDE DEF x, y
  <2>3. SUFFICES ASSUME x >= y + 1 PROVE FALSE
    BY <2>1, <2>2
  <2>4. t * x >= t * (y + 1)
    BY <2>1, <2>3
  <2> QED BY <2>1, <2>4
<1> QED BY <1>1, <1>2

LEMMA PercentBounds ==
    ASSUME NEW n \in Nat, NEW t \in Nat, n <= t
    PROVE  percent(n, t) \in 0..1000
<1>1. CASE t = 0
  BY <1>1 DEF percent
<1>2. CASE t # 0
  <2> DEFINE x == (1000 * n) \div t
  <2>1. x \in Nat /\ t * x <= 1000 * n
    BY <1>2, DivBounds
  <2>2. percent(n, t) = x
    BY <1>2 DEF percent
  <2> HIDE DEF x
  <2>3. SUFFICES ASSUME x >= 1001 PROVE FALSE
    BY <2>1, <2>2
  <2>4. t * x >= t * 1001
    BY <2>1, <2>3
  <2> QED BY <2>1, <2>4, <1>2
<1> QED BY <1>1, <1>2

\* The part of a finite set.
LEMMA PartIsSmaller ==
    ASSUME NEW S, NEW T, IsFiniteSet(T), S \subseteq T
    PROVE  /\ IsFiniteSet(S) /\ Cardinality(S) \in Nat /\ Cardinality(T) \in Nat
           /\ Cardinality(S) <= Cardinality(T)
<1>1. IsFiniteSet(S) /\ Cardinality(S) <= Cardinality(T)
  BY FS_Subset, Zenon
<1>2. Cardinality(S) \in Nat /\ Cardinality(T) \in Nat
  BY <1>1, FS_CardinalityType
<1> QED BY <1>1, <1>2

Matched(truth, discovered) == {g \in truth.pages : _page_matches(g, discovered)}
NamesOf(truth, discovered) == {g.name : g \in Matched(truth, discovered)}
Covered(truth, discovered) ==
    {f \in truth.flows : flow_covered(f, NamesOf(truth, discovered))}

LEMMA CoverageExact ==
    ASSUME NEW truth, NEW discovered, NEW p,
           IsFiniteSet(truth.pages), IsFiniteSet(truth.flows)
    PROVE  ExactCoverage(truth, discovered, p)
<1> DEFINE also == discovered \cup {p}
           M(D) == Matched(truth, D)
           C(D) == Covered(truth, D)
           Found(t) == \E q \in discovered :
                         \/ q.url = t.url
                         \/ q.fingerprint # None /\ q.fingerprint = t.fingerprint
           names == {t.name : t \in {t \in truth.pages : Found(t)}}
<1>1. ASSUME NEW D
      PROVE  compute_coverage(truth, D) =
        [measured |-> D # {},
         screens_covered |-> IF D # {} THEN Cardinality(M(D)) ELSE 0,
         coverage_percent |-> IF D # {} THEN percent(Cardinality(M(D)),
                                            Cardinality(truth.pages)) ELSE 0,
         flows_covered |-> IF D # {} THEN Cardinality(C(D)) ELSE 0]
  BY Zenon DEF compute_coverage, Matched, NamesOf, Covered
<1>2. \A g : _page_matches(g, discovered) => _page_matches(g, also)
  BY DEF _page_matches
<1>3. M(discovered) \subseteq M(also) /\ M(also) \subseteq truth.pages
  BY <1>2 DEF Matched
<1>4. NamesOf(truth, discovered) \subseteq NamesOf(truth, also)
  BY <1>3 DEF NamesOf
<1>5. C(discovered) \subseteq C(also) /\ C(also) \subseteq truth.flows
  BY <1>4 DEF Covered, flow_covered
<1>6. NamesOf(truth, discovered) = names
  BY DEF NamesOf, Matched, _page_matches
<1>7. C(discovered) = {f \in truth.flows : \A name \in f : name \in names}
  BY <1>6 DEF Covered, flow_covered
<1>8. IsFiniteSet(M(also)) /\ IsFiniteSet(C(also))
  BY <1>3, <1>5, PartIsSmaller
<1>9. /\ Cardinality(M(discovered)) \in Nat /\ Cardinality(M(also)) \in Nat
      /\ Cardinality(M(discovered)) <= Cardinality(M(also))
      /\ Cardinality(truth.pages) \in Nat
      /\ Cardinality(M(discovered)) <= Cardinality(truth.pages)
      /\ Cardinality(M(also)) <= Cardinality(truth.pages)
  <2>1. M(discovered) \subseteq truth.pages
    BY <1>3
  <2> QED BY <2>1, <1>3, <1>8, PartIsSmaller
<1>10. /\ Cardinality(C(discovered)) \in Nat /\ Cardinality(C(also)) \in Nat
       /\ Cardinality(C(discovered)) <= Cardinality(C(also))
  BY <1>5, <1>8, PartIsSmaller
<1> DEFINE seen == compute_coverage(truth, discovered)
           more == compute_coverage(truth, also)
           all == Cardinality(truth.pages)
           n == Cardinality(M(discovered))
           m == Cardinality(M(also))
<1>11. /\ percent(n, all) \in 0..1000
       /\ percent(m, all) \in 0..1000
       /\ percent(n, all) <= percent(m, all)
  <2> HIDE DEF n, m, all
  <2>1. n \in Nat /\ m \in Nat /\ all \in Nat /\ n <= m /\ n <= all /\ m <= all
    BY <1>9 DEF n, m, all
  <2>2. percent(n, all) \in 0..1000 /\ percent(m, all) \in 0..1000
    <3>1. percent(n, all) \in 0..1000
      BY <2>1, PercentBounds
    <3>2. percent(m, all) \in 0..1000
      BY <2>1, PercentBounds
    <3> QED BY <3>1, <3>2
  <2>3. percent(n, all) <= percent(m, all)
    BY <2>1, PercentGrows
  <2> QED BY <2>2, <2>3
<1>12. also # {}
  OBVIOUS
<1>13. /\ seen.coverage_percent = IF discovered # {} THEN percent(n, all) ELSE 0
       /\ seen.flows_covered =
            IF discovered # {} THEN Cardinality(C(discovered)) ELSE 0
  BY <1>1
<1>14. /\ more.coverage_percent = percent(m, all)
       /\ more.flows_covered = Cardinality(C(also))
  BY <1>1, <1>12
<1>15. seen.measured <=> discovered # {}
  <2>1. seen.measured = (discovered # {})
    BY <1>1
  <2> QED BY <2>1
<1>19. ASSUME \A t \in truth.pages : ~Found(t)
       PROVE  seen.coverage_percent = 0 /\ seen.screens_covered = 0
  <2>1. M(discovered) = {}
    BY <1>19 DEF Matched, _page_matches
  <2>2. n = 0
    BY <2>1, FS_EmptySet
  <2>3. percent(n, all) = 0
    <3>1. all \in Nat
      BY <1>9
    <3> HIDE DEF n, all
    <3> QED BY <2>2, <3>1 DEF percent
  <2>4. seen.screens_covered = IF discovered # {} THEN n ELSE 0
    BY <1>1
  <2> HIDE DEF seen, n, all
  <2> QED BY <1>13, <2>2, <2>3, <2>4
<1> HIDE DEF seen, more, n, m, all, M, C, also, names
<1>16. seen.flows_covered =
         IF discovered = {} THEN 0 ELSE
         Cardinality({f \in truth.flows : \A name \in f : name \in names})
  <2>1. CASE discovered = {}
    BY <2>1, <1>13
  <2>2. CASE discovered # {}
    <3>1. Cardinality(C(discovered)) =
            Cardinality({f \in truth.flows : \A name \in f : name \in names})
      BY <1>7, Zenon
    <3>2. seen.flows_covered = Cardinality(C(discovered))
      BY <2>2, <1>13
    <3> QED BY <3>1, <3>2, <2>2, Zenon
  <2> QED BY <2>1, <2>2
<1>17. /\ seen.coverage_percent \in 0..1000
       /\ seen.coverage_percent <= more.coverage_percent
  BY <1>11, <1>13, <1>14
<1>18. seen.flows_covered <= more.flows_covered
  BY <1>10, <1>13, <1>14
<1> QED BY <1>15, <1>16, <1>17, <1>18, <1>19, Zenon
        DEF ExactCoverage, seen, more, names, also

---------------------------------------------------------------------------
(* Acceptance.                                                             *)

\* A non-empty set of numbers has a least member.
LEMMA LeastNumber ==
    ASSUME NEW S \in SUBSET Nat, NEW x \in S
    PROVE  \E y \in S : \A z \in S : y <= z
<1>1. IsWellFoundedOn(OpToRel(<, Nat), Nat)
  BY NatLessThanWellFounded
<1>2. IsWellFoundedOn(OpToRel(<, Nat), S)
  BY <1>1, IsWellFoundedOnSubset
<1>3. PICK y \in S : \A z \in S : ~(<<z, y>> \in OpToRel(<, Nat))
  BY <1>2, WFMin
<1>4. \A z \in S : ~(z < y)
  BY <1>3 DEF OpToRel
<1> QED BY <1>4

LEMMA AcceptedStable ==
    ASSUME NEW outcomes \in Seq(BOOLEAN), NEW n \in Nat, n <= Len(outcomes),
           NEW buggy \in BOOLEAN, NEW bug_url \in BOOLEAN
    PROVE  StableIfAccepted(outcomes, n, buggy, bug_url)
<1> DEFINE red == {i \in 1..n : ~outcomes[i]}
           done == IF red = {} THEN n
                   ELSE CHOOSE i \in red : \A j \in red : i <= j
           results == SubSeq(outcomes, 1, done)
           green == {i \in 1..done : results[i]}
           verdict == accept_spec(outcomes, n, buggy, bug_url)
<1>1. /\ verdict.accepted <=> bug_url /\ Cardinality(green) = n /\ ~buggy
      /\ verdict.raised <=> ~bug_url
      /\ verdict.stability.results = results
  BY Zenon DEF accept_spec, run_stability, run_seeded_bug
<1>2. /\ done \in 0..n
      /\ \A i \in 1..n : i < done => outcomes[i]
      /\ red # {} => done \in 1..n /\ ~outcomes[done]
      /\ red = {} => done = n
  <2>1. CASE red = {}
    BY <2>1
  <2>2. CASE red # {}
    <3>1. \E y \in red : \A z \in red : y <= z
      <4>1. PICK x : x \in red
        BY <2>2
      <4>2. red \in SUBSET Nat
        OBVIOUS
      <4> HIDE DEF red
      <4> QED BY <4>1, <4>2, LeastNumber
    <3>2. done \in red /\ \A z \in red : done <= z
      BY <2>2, <3>1
    <3> HIDE DEF done
    <3> QED BY <2>2, <3>2
  <2> QED BY <2>1, <2>2
<1>r. red = {} <=> \A i \in 1..n : outcomes[i]
  OBVIOUS
<1> HIDE DEF done, red
<1>3. Len(results) = done /\ \A i \in 1..done : results[i] = outcomes[i]
  BY <1>2
<1>4. IsFiniteSet(1..n) /\ Cardinality(1..n) = n
  BY FS_Interval
<1> HIDE DEF results
<1>5. \A i \in 1..(Len(results) - 1) : results[i]
  <2>1. SUFFICES ASSUME NEW i \in 1..(Len(results) - 1) PROVE results[i]
    OBVIOUS
  <2>2. i \in 1..done /\ i \in 1..n /\ i < done
    BY <1>2, <1>3
  <2>3. results[i] = outcomes[i] /\ outcomes[i]
    BY <2>2, <1>2, <1>3
  <2> QED BY <2>3
<1>6. Cardinality(green) = n <=> \A i \in 1..n : outcomes[i]
  <2>1. CASE red = {}
    <3>1. green = 1..n
      <4>1. \A i \in 1..n : results[i] = outcomes[i] /\ outcomes[i]
        BY <2>1, <1>2, <1>3, <1>r
      <4>2. done = n
        BY <2>1, <1>2
      <4> QED BY <4>1, <4>2, Zenon
    <3>2. Cardinality(green) = n
      BY <3>1, <1>4, Zenon
    <3> QED BY <2>1, <3>2, <1>r
  <2>2. CASE red # {}
    <3>1. done \in 1..n /\ ~results[done]
      BY <2>2, <1>2, <1>3
    <3>2. \A i \in 1..done : i = done \/ i \in 1..(done - 1)
      BY <3>1
    <3>3. green \subseteq 1..(done - 1)
      BY <3>1, <3>2
    <3>4. IsFiniteSet(1..(done - 1)) /\ Cardinality(1..(done - 1)) = done - 1
      <4> DEFINE m == done - 1
      <4>1. m \in Int /\ m >= 0
        BY <3>1
      <4> HIDE DEF m
      <4>2. IsFiniteSet(1..m) /\ Cardinality(1..m) = IF 1 > m THEN 0 ELSE m - 1 + 1
        BY <4>1, FS_Interval
      <4>3. Cardinality(1..m) = m
        BY <4>1, <4>2
      <4> QED BY <4>2, <4>3 DEF m
    <3>5. Cardinality(green) <= done - 1 /\ Cardinality(green) \in Nat
      BY <3>3, <3>4, PartIsSmaller
    <3>6. Cardinality(green) # n
      BY <3>1, <3>5
    <3> QED BY <2>2, <3>6, <1>r
  <2> QED BY <2>1, <2>2
<1> HIDE DEF green, verdict
<1>7. /\ verdict.accepted <=> (\A i \in 1..n : outcomes[i]) /\ bug_url /\ ~buggy
      /\ verdict.raised => ~verdict.accepted
  BY <1>1, <1>6
<1> QED BY <1>1, <1>5, <1>7, Zenon DEF StableIfAccepted, verdict

---------------------------------------------------------------------------
(* The rating of journeys.                                                 *)

\* A longer sequence holds no fewer members of a set.
LEMMA CountGrows ==
    ASSUME NEW P, NEW s \in Seq(P), NEW t \in Seq(P), NEW S
    PROVE  /\ Count(s, S) \in Nat
           /\ Begins(s, t) => Count(s, S) <= Count(t, S)
<1> DEFINE I == {i \in DOMAIN s : s[i] \in S}
           J == {i \in DOMAIN t : t[i] \in S}
<1>1. Len(s) \in Nat /\ DOMAIN s = 1..Len(s) /\ Len(t) \in Nat
      /\ DOMAIN t = 1..Len(t)
  OBVIOUS
<1>2. IsFiniteSet(1..Len(s)) /\ IsFiniteSet(1..Len(t))
  BY <1>1, FS_Interval
<1>3. I \subseteq 1..Len(s) /\ J \subseteq 1..Len(t)
  BY <1>1
<1>4. Begins(s, t) => I \subseteq J
  BY <1>1 DEF Begins
<1>5. Count(s, S) = Cardinality(I) /\ Count(t, S) = Cardinality(J)
  BY Zenon DEF Count
<1> HIDE DEF I, J
<1>6. IsFiniteSet(I) /\ IsFiniteSet(J)
  BY <1>2, <1>3, FS_Subset
<1>7. Cardinality(I) \in Nat
  BY <1>6, FS_CardinalityType
<1>8. I \subseteq J => Cardinality(I) <= Cardinality(J)
  BY <1>6, FS_Subset
<1> QED BY <1>4, <1>5, <1>7, <1>8

Danger(g, x) ==
    \E i \in DOMAIN x.node_fps : x.node_fps[i] \in g.destructive

\* What a score is clamped from.
Points(g, x) ==
    (IF Danger(g, x) THEN 40 ELSE 0) + 8 * Count(x.edge_types, StateChanges)
    + 6 * Count(x.node_fps, g.auth_gated) + 5 * Count(x.node_fps, g.form)
    + 3 * Len(x.node_fps)

LEMMA PointsAre ==
    ASSUME NEW g, NEW x, NEW P, NEW T,
           x.node_fps \in Seq(P), x.edge_types \in Seq(T)
    PROVE  /\ Points(g, x) \in Nat
           /\ Danger(g, x) => Points(g, x) >= 43
<1> DEFINE c == Count(x.edge_types, StateChanges)
           a == Count(x.node_fps, g.auth_gated)
           m == Count(x.node_fps, g.form)
           n == Len(x.node_fps)
           d == IF Danger(g, x) THEN 40 ELSE 0
<1>1. c \in Nat /\ a \in Nat /\ m \in Nat
  BY CountGrows
<1>2. n \in Nat /\ (Danger(g, x) => n >= 1)
  BY DEF Danger
<1>3. d \in Nat /\ (Danger(g, x) => d = 40)
  OBVIOUS
<1>4. Points(g, x) = d + 8 * c + 6 * a + 5 * m + 3 * n
  BY Zenon DEF Points
<1> HIDE DEF c, a, m, n, d
<1> QED BY <1>1, <1>2, <1>3, <1>4

LEMMA PointsGrow ==
    ASSUME NEW g, NEW x, NEW y, NEW P, NEW T,
           x.node_fps \in Seq(P), x.edge_types \in Seq(T),
           y.node_fps \in Seq(P), y.edge_types \in Seq(T),
           Begins(x.node_fps, y.node_fps), Begins(x.edge_types, y.edge_types)
    PROVE  Points(g, x) <= Points(g, y)
<1> DEFINE c == Count(x.edge_types, StateChanges)
           a == Count(x.node_fps, g.auth_gated)
           m == Count(x.node_fps, g.form)
           n == Len(x.node_fps)
           d == IF Danger(g, x) THEN 40 ELSE 0
           cc == Count(y.edge_types, StateChanges)
           aa == Count(y.node_fps, g.auth_gated)
           mm == Count(y.node_fps, g.form)
           nn == Len(y.node_fps)
           dd == IF Danger(g, y) THEN 40 ELSE 0
<1>1. c \in Nat /\ cc \in Nat /\ c <= cc
  BY CountGrows
<1>2. a \in Nat /\ aa \in Nat /\ a <= aa
  BY CountGrows
<1>3. m \in Nat /\ mm \in Nat /\ m <= mm
  BY CountGrows
<1>4. n \in Nat /\ nn \in Nat /\ n <= nn
  BY DEF Begins
<1>5. Danger(g, x) => Danger(g, y)
  BY DEF Begins, Danger
<1>6. d \in Nat /\ dd \in Nat /\ d <= dd
  BY <1>5
<1>7. /\ Points(g, x) = d + 8 * c + 6 * a + 5 * m + 3 * n
      /\ Points(g, y) = dd + 8 * cc + 6 * aa + 5 * mm + 3 * nn
  BY Zenon DEF Points
<1> HIDE DEF c, a, m, n, d, cc, aa, mm, nn, dd
<1> QED BY <1>1, <1>2, <1>3, <1>4, <1>6, <1>7

LEMMA RatingIs ==
    ASSUME NEW g, NEW x
    PROVE  risk_score(extract_signals(g, x), RiskWeights) =
             clamp100(Points(g, x))
<1> DEFINE s == extract_signals(g, x)
<1>1. /\ s.has_destructive = Danger(g, x)
      /\ s.state_change_edges = Count(x.edge_types, StateChanges)
      /\ s.auth_gated_steps = Count(x.node_fps, g.auth_gated)
      /\ s.form_count = Count(x.node_fps, g.form)
      /\ s.path_length = Len(x.node_fps)
  BY DEF extract_signals, Danger
<1>2. /\ RiskWeights.destructive_action = 40
      /\ RiskWeights.per_state_change = 8
      /\ RiskWeights.auth_gated_step = 6
      /\ RiskWeights.per_form = 5 /\ RiskWeights.depth = 3
  BY DEF RiskWeights
<1> HIDE DEF s
<1>3. risk_score(s, RiskWeights) = clamp100(Points(g, x))
  BY <1>1, <1>2, Zenon DEF risk_score, Points
<1> QED BY <1>3 DEF s

\* For any graph and any two journeys, of any length, going on never lowers the
\* rating, which lies in 0..100, and a destructive page is never rated low
\* (extract_signals, risk_score, risk_tier with the default weights).
THEOREM RiskTheorem ==
    ASSUME NEW g, NEW f, NEW h, NEW P, NEW T,
           f.node_fps \in Seq(P), h.node_fps \in Seq(P),
           f.edge_types \in Seq(T), h.edge_types \in Seq(T)
    PROVE  RiskGrows(g, f, h)
<1> DEFINE p == Points(g, f)
           q == Points(g, h)
           r == risk_score(extract_signals(g, f), RiskWeights)
           t == risk_score(extract_signals(g, h), RiskWeights)
<1>1. r = clamp100(p) /\ t = clamp100(q)
  BY RatingIs
<1>2. p \in Nat /\ q \in Nat /\ (Danger(g, f) => p >= 43)
  BY PointsAre
<1>3. Begins(f.node_fps, h.node_fps) /\ Begins(f.edge_types, h.edge_types)
      => p <= q
  BY PointsGrow
<1> HIDE DEF p, q, r, t
<1>4. r \in 0..100 /\ t \in 0..100
  BY <1>1, <1>2 DEF clamp100
<1>5. p <= q => r <= t
  BY <1>1, <1>2 DEF clamp100
<1>6. Danger(g, f) => r >= 43
  BY <1>1, <1>2 DEF clamp100
<1>7. Danger(g, f) => risk_tier(r) # "low"
  BY <1>4, <1>6 DEF risk_tier
<1>8. /\ r \in 0..100
      /\ Begins(f.node_fps, h.node_fps) /\ Begins(f.edge_types, h.edge_types)
         => r <= t
      /\ Danger(g, f) => risk_tier(r) # "low"
  BY <1>3, <1>4, <1>5, <1>7
<1> QED BY <1>8, Zenon DEF RiskGrows, Danger, r, t

---------------------------------------------------------------------------
(* Fractions.                                                              *)

Fractions == Int \X (Nat \ {0})

\* The ones that lie in 0..1.
IsUnit(x) == x \in Fractions /\ 0 <= x[1] /\ x[1] <= x[2]

LEMMA PositiveProduct ==
    ASSUME NEW m \in Nat \ {0}, NEW n \in Nat \ {0}
    PROVE  m * n \in Nat \ {0}
OBVIOUS

LEMMA FractionsClosed ==
    ASSUME NEW x \in Fractions, NEW y \in Fractions
    PROVE  /\ Plus(x, y) \in Fractions /\ Times(x, y) \in Fractions
           /\ Plus(x, y)[1] = x[1] * y[2] + y[1] * x[2]
           /\ Plus(x, y)[2] = x[2] * y[2]
           /\ Times(x, y)[1] = x[1] * y[1] /\ Times(x, y)[2] = x[2] * y[2]
<1>1. /\ x[1] \in Int /\ y[1] \in Int
      /\ x[2] \in Nat \ {0} /\ y[2] \in Nat \ {0}
  BY DEF Fractions
<1>2. x[2] * y[2] \in Nat \ {0}
  BY <1>1, PositiveProduct
<1>3. x[1] * y[2] + y[1] * x[2] \in Int /\ x[1] * y[1] \in Int
  BY <1>1
<1> QED BY <1>2, <1>3 DEF Fractions, Plus, Times

LEMMA ZeroAndOne == IsUnit(Zero) /\ IsUnit(One) /\ Zero[1] # Zero[2]
                    /\ One[1] = One[2] /\ Zero[1] = 0 /\ Zero[2] = 1
BY DEF IsUnit, Fractions, Zero, One

\* A clamped fraction lies in 0..1, and is 1 exactly when it was 1 or more.
LEMMA Clamped ==
    ASSUME NEW x \in Fractions
    PROVE  /\ IsUnit(Clamp01(x))
           /\ Clamp01(x)[1] = Clamp01(x)[2] <=> x[2] <= x[1]
           /\ Clamp01(x) \in {Zero, One, x}
           /\ x[1] <= 0 => Clamp01(x) = Zero
           /\ 0 < x[1] /\ x[1] < x[2] => Clamp01(x) = x
<1>1. x[1] \in Int /\ x[2] \in Nat \ {0}
  BY DEF Fractions
<1>2. Leq(x, Zero) <=> x[1] <= 0
  BY <1>1 DEF Leq, Zero
<1>3. Leq(One, x) <=> x[2] <= x[1]
  BY <1>1 DEF Leq, One
<1>4. CASE x[1] <= 0
  <2>1. Clamp01(x) = Zero
    BY <1>2, <1>4 DEF Clamp01
  <2> QED BY <2>1, <1>1, <1>4, ZeroAndOne
<1>5. CASE 0 < x[1] /\ x[2] <= x[1]
  <2>1. Clamp01(x) = One
    BY <1>1, <1>2, <1>3, <1>5 DEF Clamp01
  <2> QED BY <2>1, <1>1, <1>5, ZeroAndOne
<1>6. CASE 0 < x[1] /\ x[1] < x[2]
  <2>1. Clamp01(x) = x
    BY <1>1, <1>2, <1>3, <1>6 DEF Clamp01
  <2> QED BY <2>1, <1>1, <1>6 DEF IsUnit
<1> QED BY <1>1, <1>4, <1>5, <1>6

\* A part of a positive whole, weighted, is short of it unless it is all of it.
LEMMA Shortfall ==
    ASSUME NEW w \in Nat, NEW d \in Nat, NEW k \in Nat \ {0}
    PROVE  w * d * k \in Nat /\ (w * d * k = 0 <=> w = 0 \/ d = 0)
<1>1. w * d \in Nat /\ (w * d = 0 <=> w = 0 \/ d = 0)
  OBVIOUS
<1> DEFINE p == w * d
<1> HIDE DEF p
<1>2. p \in Nat => p * k \in Nat /\ (p * k = 0 <=> p = 0)
  OBVIOUS
<1> QED BY <1>1, <1>2 DEF p

Mean2(x, y) == Plus(Times(<<1, 2>>, x), Times(<<1, 2>>, y))
Mean3(u, v, w, x, y, z) ==
    Times(Plus(Plus(Times(<<u, 1>>, x), Times(<<v, 1>>, y)),
               Times(<<w, 1>>, z)), <<1, u + v + w>>)

\* A weighted mean of fractions in 0..1 is 1 exactly when each that weighs is.
LEMMA BlendOfThree ==
    ASSUME NEW u \in Nat, NEW v \in Nat, NEW w \in Nat, u + v + w # 0,
           NEW x, NEW y, NEW z, IsUnit(x), IsUnit(y), IsUnit(z)
    PROVE  /\ Mean3(u, v, w, x, y, z) \in Fractions
           /\ Mean3(u, v, w, x, y, z)[2] <= Mean3(u, v, w, x, y, z)[1] <=>
                /\ u = 0 \/ x[1] = x[2]
                /\ v = 0 \/ y[1] = y[2]
                /\ w = 0 \/ z[1] = z[2]
           /\ x[1] = 0 /\ y[1] = 0 /\ z[1] = 0 =>
                Mean3(u, v, w, x, y, z)[1] = 0
<1> DEFINE X == Times(<<u, 1>>, x)
           Y == Times(<<v, 1>>, y)
           Z == Times(<<w, 1>>, z)
           raw == Plus(Plus(X, Y), Z)
           total == u + v + w
           mean == Times(raw, <<1, total>>)
<1>1. /\ <<u, 1>> \in Fractions /\ <<v, 1>> \in Fractions
      /\ <<w, 1>> \in Fractions /\ <<1, total>> \in Fractions
      /\ x \in Fractions /\ y \in Fractions /\ z \in Fractions
  BY DEF Fractions, IsUnit
<1>t. /\ x[1] \in Int /\ y[1] \in Int /\ z[1] \in Int
      /\ x[2] \in Nat \ {0} /\ y[2] \in Nat \ {0} /\ z[2] \in Nat \ {0}
  BY <1>1 DEF Fractions
<1>2. /\ X \in Fractions /\ X[1] = u * x[1] /\ X[2] = x[2]
      /\ Y \in Fractions /\ Y[1] = v * y[1] /\ Y[2] = y[2]
      /\ Z \in Fractions /\ Z[1] = w * z[1] /\ Z[2] = z[2]
  <2>1. X \in Fractions /\ X[1] = <<u, 1>>[1] * x[1] /\ X[2] = <<u, 1>>[2] * x[2]
    BY <1>1, FractionsClosed
  <2>2. Y \in Fractions /\ Y[1] = <<v, 1>>[1] * y[1] /\ Y[2] = <<v, 1>>[2] * y[2]
    BY <1>1, FractionsClosed
  <2>3. Z \in Fractions /\ Z[1] = <<w, 1>>[1] * z[1] /\ Z[2] = <<w, 1>>[2] * z[2]
    BY <1>1, FractionsClosed
  <2> HIDE DEF X, Y, Z
  <2> QED BY <2>1, <2>2, <2>3, <1>t
<1> HIDE DEF X, Y, Z
<1> DEFINE S == Plus(X, Y)
<1>3. /\ S \in Fractions /\ S[1] = (u * x[1]) * y[2] + (v * y[1]) * x[2]
      /\ S[2] = x[2] * y[2]
  BY <1>2, FractionsClosed
<1> HIDE DEF S
<1>4. /\ raw \in Fractions
      /\ raw[1] = ((u * x[1]) * y[2] + (v * y[1]) * x[2]) * z[2]
                  + (w * z[1]) * (x[2] * y[2])
      /\ raw[2] = (x[2] * y[2]) * z[2]
  <2>1. raw = Plus(S, Z)
    BY DEF S
  <2> HIDE DEF raw
  <2> QED BY <2>1, <1>2, <1>3, FractionsClosed
<1> HIDE DEF raw
<1>5. mean \in Fractions /\ mean[1] = raw[1] /\ mean[2] = raw[2] * total
  <2>1. mean \in Fractions /\ mean[1] = raw[1] * <<1, total>>[1]
        /\ mean[2] = raw[2] * <<1, total>>[2]
    BY <1>1, <1>4, FractionsClosed
  <2>2. raw[1] \in Int
    BY <1>4 DEF Fractions
  <2> HIDE DEF mean, total
  <2> QED BY <2>1, <2>2
<1> HIDE DEF mean
<1> DEFINE dx == x[2] - x[1]
           dy == y[2] - y[1]
           dz == z[2] - z[1]
           kx == y[2] * z[2]
           ky == x[2] * z[2]
           kz == x[2] * y[2]
<1>6. dx \in Nat /\ dy \in Nat /\ dz \in Nat
  BY <1>t DEF IsUnit
<1>7. kx \in Nat \ {0} /\ ky \in Nat \ {0} /\ kz \in Nat \ {0}
  BY <1>t, PositiveProduct
<1>8. raw[2] * total - raw[1] = u * dx * kx + v * dy * ky + w * dz * kz
  <2> DEFINE x1 == x[1] 
             x2 == x[2]
             y1 == y[1]
             y2 == y[2]
             z1 == z[1]
             z2 == z[2]
  <2>1. /\ x1 \in Int /\ x2 \in Int /\ y1 \in Int /\ y2 \in Int /\ z1 \in Int
        /\ z2 \in Int
    BY <1>t
  <2>2. raw[2] * total - raw[1] = ((x2 * y2) * z2) * (u + v + w)
          - (((u * x1) * y2 + (v * y1) * x2) * z2 + (w * z1) * (x2 * y2))
    BY <1>4
  <2>3. u * dx * kx + v * dy * ky + w * dz * kz =
          u * (x2 - x1) * (y2 * z2) + v * (y2 - y1) * (x2 * z2)
          + w * (z2 - z1) * (x2 * y2)
    OBVIOUS
  <2> HIDE DEF x1, x2, y1, y2, z1, z2
  <2>4. ((x2 * y2) * z2) * (u + v + w)
          - (((u * x1) * y2 + (v * y1) * x2) * z2 + (w * z1) * (x2 * y2))
        = u * (x2 - x1) * (y2 * z2) + v * (y2 - y1) * (x2 * z2)
          + w * (z2 - z1) * (x2 * y2)
    BY <2>1
  <2> QED BY <2>2, <2>3, <2>4
<1>9. raw[2] * total \in Int /\ raw[1] \in Int
  <2>1. raw[1] \in Int /\ raw[2] \in Int
    BY <1>4 DEF Fractions
  <2>2. total \in Int
    OBVIOUS
  <2> HIDE DEF total
  <2> QED BY <2>1, <2>2
<1> DEFINE a == u * dx * kx
           b == v * dy * ky
           c == w * dz * kz
<1>10. /\ a \in Nat /\ (a = 0 <=> u = 0 \/ dx = 0)
       /\ b \in Nat /\ (b = 0 <=> v = 0 \/ dy = 0)
       /\ c \in Nat /\ (c = 0 <=> w = 0 \/ dz = 0)
  <2> HIDE DEF dx, dy, dz, kx, ky, kz
  <2> QED BY <1>6, <1>7, Shortfall
<1>11. /\ dx = 0 <=> x[1] = x[2]
       /\ dy = 0 <=> y[1] = y[2]
       /\ dz = 0 <=> z[1] = z[2]
  BY <1>t
<1>12. mean[2] - mean[1] = a + b + c /\ mean[2] \in Int /\ mean[1] \in Int
  <2> HIDE DEF total, dx, dy, dz, kx, ky, kz
  <2> QED BY <1>5, <1>8, <1>9
<1> HIDE DEF a, b, c, dx, dy, dz
<1>13. mean[2] <= mean[1] <=> a = 0 /\ b = 0 /\ c = 0
  BY <1>10, <1>12
<1>14. mean[2] <= mean[1] <=> /\ u = 0 \/ x[1] = x[2]
                              /\ v = 0 \/ y[1] = y[2]
                              /\ w = 0 \/ z[1] = z[2]
  BY <1>10, <1>11, <1>13
<1>15. x[1] = 0 /\ y[1] = 0 /\ z[1] = 0 => mean[1] = 0
  BY <1>4, <1>5, <1>t
<1>16. mean = Mean3(u, v, w, x, y, z)
  BY Zenon DEF Mean3, mean, raw, total, X, Y, Z
<1> QED BY <1>5, <1>14, <1>15, <1>16, Zenon

---------------------------------------------------------------------------
(* The structure of two elements.                                          *)

\* A set of numbers up to k has a greatest member.
LEMMA GreatestNumber ==
    ASSUME NEW k \in Nat, NEW S \in SUBSET (0..k), NEW x \in S
    PROVE  \E y \in S : \A z \in S : z <= y
<1> DEFINE T == {n \in 0..k : k - n \in S}
<1>1. T \in SUBSET Nat /\ k - x \in T
  <2>1. x \in 0..k
    OBVIOUS
  <2> QED BY <2>1
<1>2. PICK n \in T : \A m \in T : n <= m
  <2> HIDE DEF T
  <2> QED BY <1>1, LeastNumber
<1>3. \A z \in S : z \in 0..k /\ k - z \in T
  BY <1>1
<1>4. n \in 0..k /\ k - n \in S
  BY <1>2
<1> HIDE DEF T
<1> QED BY <1>2, <1>3, <1>4

\* The Jaccard index of two finite sets is symmetric, lies in 0..1, and is 1
\* exactly for equal sets that are not empty.
LEMMA JaccardIs ==
    ASSUME NEW S, NEW T, IsFiniteSet(S), IsFiniteSet(T)
    PROVE  /\ IsUnit(_jaccard(S, T))
           /\ _jaccard(S, T) = _jaccard(T, S)
           /\ _jaccard(S, T)[1] = _jaccard(S, T)[2] <=> S = T /\ S # {}
           /\ S \cap T = {} => _jaccard(S, T)[1] = 0
<1> DEFINE I == S \cap T
           U == S \cup T
<1>1. IsFiniteSet(U) /\ I \subseteq U
  BY FS_Union, Zenon
<1>2. IsFiniteSet(I) /\ Cardinality(I) <= Cardinality(U)
      /\ (Cardinality(I) = Cardinality(U) => I = U)
  BY <1>1, FS_Subset, Zenon
<1>3. Cardinality(I) \in Nat /\ Cardinality(U) \in Nat
  BY <1>1, <1>2, FS_CardinalityType
<1>4. I = U <=> S = T
  OBVIOUS
<1>5. T \cap S = I /\ T \cup S = U
  OBVIOUS
<1>6. U = {} <=> S = {} /\ T = {}
  OBVIOUS
<1>7. Cardinality(U) = 0 <=> U = {}
  BY <1>1, FS_EmptySet
<1>8. _jaccard(S, T) = IF U = {} THEN Zero ELSE <<Cardinality(I), Cardinality(U)>>
  BY Zenon DEF _jaccard
<1>9. _jaccard(T, S) = IF U = {} THEN Zero ELSE <<Cardinality(I), Cardinality(U)>>
  BY <1>5, Zenon DEF _jaccard
<1>10. I = {} => Cardinality(I) = 0
  BY FS_EmptySet
<1>11. Cardinality(I) = Cardinality(U) <=> S = T
  BY <1>2, <1>4, Zenon
<1> HIDE DEF I, U
<1>12. CASE U = {}
  BY <1>12, <1>6, <1>8, <1>9, ZeroAndOne
<1>13. CASE U # {}
  <2>1. _jaccard(S, T) = <<Cardinality(I), Cardinality(U)>>
    BY <1>13, <1>8
  <2>2. IsUnit(_jaccard(S, T))
    BY <2>1, <1>2, <1>3, <1>7, <1>13 DEF IsUnit, Fractions
  <2> QED BY <2>1, <2>2, <1>6, <1>8, <1>9, <1>10, <1>11, <1>13 DEF I
<1> QED BY <1>12, <1>13

LEMMA SameIs ==
    ASSUME NEW x, NEW y
    PROVE  /\ IsUnit(same(x, y)) /\ same(x, y) = same(y, x)
           /\ same(x, y)[1] = same(x, y)[2] <=> x = y /\ x # Missing
           /\ x # y \/ x = Missing => same(x, y) = Zero
BY ZeroAndOne DEF same

\* The same of the shared beginning of two paths.
LEMMA OverlapIs ==
    ASSUME NEW a \in Seq(Nat), NEW b \in Seq(Nat)
    PROVE  /\ IsUnit(_xpath_overlap(a, b))
           /\ _xpath_overlap(a, b) = _xpath_overlap(b, a)
           /\ _xpath_overlap(a, b)[1] = _xpath_overlap(a, b)[2] <=>
                a = b /\ a # <<>>
           /\ a = <<>> \/ b = <<>> => _xpath_overlap(a, b) = Zero
<1> DEFINE lo == Lower(Len(a), Len(b))
           hi == Higher(Len(a), Len(b))
           shared == {n \in 0..lo : \A i \in 1..n : a[i] = b[i]}
           most == CHOOSE n \in shared : \A m \in shared : m <= n
<1>1. Len(a) \in Nat /\ Len(b) \in Nat
  OBVIOUS
<1>2. /\ lo \in Nat /\ hi \in Nat /\ lo <= hi
      /\ lo = hi <=> Len(a) = Len(b)
      /\ hi = 0 <=> Len(a) = 0 /\ Len(b) = 0
      /\ lo <= Len(a) /\ lo <= Len(b) /\ (Len(a) = Len(b) => lo = Len(a))
      /\ lo = Lower(Len(b), Len(a)) /\ hi = Higher(Len(b), Len(a))
  BY <1>1 DEF Lower, Higher
<1>3. most \in shared /\ \A m \in shared : m <= most
  <2>1. 0 \in shared /\ shared \in SUBSET (0..lo)
    BY <1>2
  <2>2. \E n \in shared : \A m \in shared : m <= n
    <3> HIDE DEF shared, lo
    <3> QED BY <2>1, <1>2, GreatestNumber
  <2> HIDE DEF shared
  <2> QED BY <2>2
<1>4. most \in 0..lo /\ \A i \in 1..most : a[i] = b[i]
  <2> HIDE DEF most
  <2> QED BY <1>3
<1>5. lo \in shared => most = lo
  <2> HIDE DEF most, shared
  <2> QED BY <1>2, <1>3, <1>4
<1>6. shared = {n \in 0..Lower(Len(b), Len(a)) : \A i \in 1..n : b[i] = a[i]}
  BY <1>2
<1>7. /\ _xpath_overlap(a, b) =
           IF a = <<>> \/ b = <<>> THEN Zero ELSE <<most, hi>>
      /\ _xpath_overlap(b, a) =
           IF a = <<>> \/ b = <<>> THEN Zero ELSE <<most, hi>>
  <2>1. _xpath_overlap(a, b) =
           IF a = <<>> \/ b = <<>> THEN Zero ELSE <<most, hi>>
    BY Zenon DEF _xpath_overlap
  <2> DEFINE back == {n \in 0..Lower(Len(b), Len(a)) : \A i \in 1..n : b[i] = a[i]}
             Most(S) == CHOOSE n \in S : \A m \in S : m <= n
  <2>a. _xpath_overlap(b, a) =
           IF b = <<>> \/ a = <<>> THEN Zero
           ELSE <<Most(back), Higher(Len(b), Len(a))>>
    BY Zenon DEF _xpath_overlap
  <2>b. back = shared
    BY <1>6
  <2>2. _xpath_overlap(b, a) =
           IF b = <<>> \/ a = <<>> THEN Zero
           ELSE <<Most(shared), Higher(Len(b), Len(a))>>
    <3> HIDE DEF back, shared, Most
    <3> QED BY <2>a, <2>b, Zenon
  <2>3. Higher(Len(b), Len(a)) = hi
    BY <1>2
  <2>4. _xpath_overlap(b, a) =
           IF b = <<>> \/ a = <<>> THEN Zero ELSE <<most, hi>>
    BY <2>2, <2>3, Zenon
  <2>5. (b = <<>> \/ a = <<>>) <=> (a = <<>> \/ b = <<>>)
    OBVIOUS
  <2> QED BY <2>1, <2>4, <2>5, Zenon
<1>8. Len(a) = 0 <=> a = <<>>
  OBVIOUS
<1>9. Len(b) = 0 <=> b = <<>>
  OBVIOUS
<1>10. most = hi => a = b
  <2> SUFFICES ASSUME most = hi PROVE a = b
    OBVIOUS
  <2> HIDE DEF most
  <2>1. Len(a) = Len(b) /\ most = Len(a)
    BY <1>2, <1>4
  <2> HIDE DEF lo, hi
  <2>2. \A i \in 1..Len(a) : a[i] = b[i]
    BY <2>1, <1>4
  <2> QED BY <2>1, <2>2
<1>11. a = b => most = hi
  <2> SUFFICES ASSUME a = b PROVE most = hi
    OBVIOUS
  <2>1. lo \in shared
    BY <1>2
  <2> HIDE DEF most, shared
  <2> QED BY <2>1, <1>2, <1>5
<1>12. CASE a = <<>> \/ b = <<>>
  <2>1. _xpath_overlap(a, b) = Zero /\ _xpath_overlap(b, a) = Zero
    BY <1>7, <1>12, Zenon
  <2> QED BY <2>1, <1>12, ZeroAndOne
<1>13. CASE a # <<>> /\ b # <<>>
  <2>1. _xpath_overlap(a, b) = <<most, hi>> /\ _xpath_overlap(b, a) = <<most, hi>>
    BY <1>7, <1>13, Zenon
  <2> HIDE DEF most
  <2>2. most \in Int /\ 0 <= most /\ most <= hi /\ hi \in Nat \ {0}
    BY <1>2, <1>4, <1>8, <1>13
  <2> HIDE DEF hi
  <2> QED BY <2>1, <2>2, <1>10, <1>11, <1>13 DEF IsUnit, Fractions
<1> QED BY <1>12, <1>13

\* The blend of the three over the components there are.
LEMMA DomIs ==
    ASSUME NEW c, NEW b, IsFiniteSet(c.attrs), IsFiniteSet(b.attrs),
           c.xpath \in Seq(Nat), b.xpath \in Seq(Nat)
    PROVE  /\ IsUnit(dom_sim(c, b))
           /\ dom_sim(c, b) = dom_sim(b, c)
           /\ dom_sim(c, b)[1] = dom_sim(c, b)[2] <=>
                /\ c.attrs = b.attrs /\ c.tag = b.tag /\ c.xpath = b.xpath
                /\ c.attrs # {} \/ c.tag # Missing \/ c.xpath # <<>>
           /\ (/\ c.attrs \cap b.attrs = {}
               /\ c.tag # b.tag \/ c.tag = Missing
               /\ c.xpath = <<>> \/ b.xpath = <<>>) => dom_sim(c, b) = Zero
<1> DEFINE hasA == c.attrs \cup b.attrs # {}
           hasT == {c.tag, b.tag} # {Missing}
           hasX == c.xpath # <<>> \/ b.xpath # <<>>
           u == IF hasA THEN 5 ELSE 0
           v == IF hasT THEN 2 ELSE 0
           w == IF hasX THEN 3 ELSE 0
           x == _jaccard(c.attrs, b.attrs)
           y == same(c.tag, b.tag)
           z == _xpath_overlap(c.xpath, b.xpath)
           Blend(i, j, k, p, q, r) ==
             IF i + j + k = 0 THEN Zero
             ELSE Clamp01(Times(Plus(Plus(Times(<<i, 1>>, p), Times(<<j, 1>>, q)),
                                     Times(<<k, 1>>, r)), <<1, i + j + k>>))
<1>1. dom_sim(c, b) = Blend(u, v, w, x, y, z)
  BY Zenon DEF dom_sim
<1>2. dom_sim(b, c) = Blend(u, v, w, x, y, z)
  <2> DEFINE u2 == IF b.attrs \cup c.attrs # {} THEN 5 ELSE 0
             v2 == IF {b.tag, c.tag} # {Missing} THEN 2 ELSE 0
             w2 == IF b.xpath # <<>> \/ c.xpath # <<>> THEN 3 ELSE 0
             x2 == _jaccard(b.attrs, c.attrs)
             y2 == same(b.tag, c.tag)
             z2 == _xpath_overlap(b.xpath, c.xpath)
  <2>1. dom_sim(b, c) = Blend(u2, v2, w2, x2, y2, z2)
    BY Zenon DEF dom_sim
  <2>2. u2 = u /\ v2 = v /\ w2 = w
    <3>1. b.attrs \cup c.attrs = c.attrs \cup b.attrs /\ {b.tag, c.tag} = {c.tag, b.tag}
      OBVIOUS
    <3> QED BY <3>1
  <2>3. x2 = x
    BY JaccardIs
  <2>4. y2 = y
    BY SameIs
  <2>5. z2 = z
    BY OverlapIs
  <2> HIDE DEF u, v, w, x, y, z, u2, v2, w2, x2, y2, z2, Blend
  <2> QED BY <2>1, <2>2, <2>3, <2>4, <2>5
<1>3. IsUnit(x) /\ IsUnit(y) /\ IsUnit(z)
  BY JaccardIs, SameIs, OverlapIs
<1>4. x[1] = x[2] <=> c.attrs = b.attrs /\ c.attrs # {}
  BY JaccardIs
<1>5. y[1] = y[2] <=> c.tag = b.tag /\ c.tag # Missing
  BY SameIs
<1>6. z[1] = z[2] <=> c.xpath = b.xpath /\ c.xpath # <<>>
  BY OverlapIs
<1>7. /\ u \in Nat /\ v \in Nat /\ w \in Nat
      /\ u = 0 <=> c.attrs = {} /\ b.attrs = {}
      /\ v = 0 <=> c.tag = Missing /\ b.tag = Missing
      /\ w = 0 <=> c.xpath = <<>> /\ b.xpath = <<>>
      /\ u + v + w = 0 <=> u = 0 /\ v = 0 /\ w = 0
  <2>1. u \in Nat /\ v \in Nat /\ w \in Nat
    OBVIOUS
  <2>2. u = 0 <=> c.attrs = {} /\ b.attrs = {}
    OBVIOUS
  <2>3. v = 0 <=> c.tag = Missing /\ b.tag = Missing
    <3>1. {c.tag, b.tag} = {Missing} <=> c.tag = Missing /\ b.tag = Missing
      BY Zenon
    <3> HIDE DEF hasT
    <3>2. v = 0 <=> ~hasT
      OBVIOUS
    <3> QED BY <3>1, <3>2, Zenon DEF hasT
  <2>4. w = 0 <=> c.xpath = <<>> /\ b.xpath = <<>>
    OBVIOUS
  <2> HIDE DEF u, v, w
  <2> QED BY <2>1, <2>2, <2>3, <2>4
<1>8. c.attrs \cap b.attrs = {} => x[1] = 0
  BY JaccardIs
<1>9. c.tag # b.tag \/ c.tag = Missing => y[1] = 0
  BY SameIs, ZeroAndOne
<1>10. c.xpath = <<>> \/ b.xpath = <<>> => z[1] = 0
  BY OverlapIs, ZeroAndOne
<1> HIDE DEF u, v, w, x, y, z
<1>11. CASE u + v + w = 0
  <2>1. dom_sim(c, b) = Zero
    BY <1>1, <1>11
  <2> QED BY <2>1, <1>2, <1>1, <1>7, <1>11, ZeroAndOne
<1>12. CASE u + v + w # 0
  <2> DEFINE mean == Mean3(u, v, w, x, y, z)
  <2>1. dom_sim(c, b) = Clamp01(mean)
    BY <1>1, <1>12, Zenon DEF Mean3
  <2>2. /\ mean \in Fractions
        /\ mean[2] <= mean[1] <=> /\ u = 0 \/ x[1] = x[2]
                                  /\ v = 0 \/ y[1] = y[2]
                                  /\ w = 0 \/ z[1] = z[2]
        /\ x[1] = 0 /\ y[1] = 0 /\ z[1] = 0 => mean[1] = 0
    BY <1>3, <1>7, <1>12, BlendOfThree
  <2> HIDE DEF mean
  <2>3. /\ IsUnit(Clamp01(mean))
        /\ Clamp01(mean)[1] = Clamp01(mean)[2] <=> mean[2] <= mean[1]
        /\ mean[1] <= 0 => Clamp01(mean) = Zero
    BY <2>2, Clamped
  <2>4. dom_sim(c, b)[1] = dom_sim(c, b)[2] <=>
          /\ c.attrs = b.attrs /\ c.tag = b.tag /\ c.xpath = b.xpath
          /\ c.attrs # {} \/ c.tag # Missing \/ c.xpath # <<>>
    BY <2>1, <2>2, <2>3, <1>4, <1>5, <1>6, <1>7, <1>12
  <2>5. mean[1] = 0 => Clamp01(mean) = Zero
    BY <2>3
  <2>6. (/\ c.attrs \cap b.attrs = {}
         /\ c.tag # b.tag \/ c.tag = Missing
         /\ c.xpath = <<>> \/ b.xpath = <<>>) => dom_sim(c, b) = Zero
    BY <2>1, <2>2, <2>5, <1>8, <1>9, <1>10
  <2>7. IsUnit(dom_sim(c, b)) /\ dom_sim(c, b) = dom_sim(b, c)
    BY <2>1, <2>3, <1>1, <1>2
  <2> QED BY <2>4, <2>6, <2>7
<1> QED BY <1>11, <1>12

---------------------------------------------------------------------------
(* Their boxes, roles and names.                                           *)

\* The mean of two fractions in 0..1.
LEMMA BlendOfTwo ==
    ASSUME NEW x, NEW y, IsUnit(x), IsUnit(y)
    PROVE  /\ Mean2(x, y) \in Fractions
           /\ Mean2(x, y)[2] <= Mean2(x, y)[1] <=> x[1] = x[2] /\ y[1] = y[2]
           /\ x[1] = 0 /\ y[1] = 0 => Mean2(x, y)[1] = 0
           /\ x[1] = 0 => /\ 0 <= Mean2(x, y)[1]
                          /\ 2 * Mean2(x, y)[1] <= Mean2(x, y)[2]
<1> DEFINE X == Times(<<1, 2>>, x)
           Y == Times(<<1, 2>>, y)
           mean == Plus(X, Y)
<1>1. <<1, 2>> \in Fractions /\ x \in Fractions /\ y \in Fractions
  BY DEF Fractions, IsUnit
<1>2. /\ x[1] \in Nat /\ y[1] \in Nat /\ x[1] <= x[2] /\ y[1] <= y[2]
      /\ x[2] \in Nat \ {0} /\ y[2] \in Nat \ {0}
  BY DEF Fractions, IsUnit
<1>3. /\ X \in Fractions /\ X[1] = x[1] /\ X[2] = 2 * x[2]
      /\ Y \in Fractions /\ Y[1] = y[1] /\ Y[2] = 2 * y[2]
  <2>1. X \in Fractions /\ X[1] = <<1, 2>>[1] * x[1] /\ X[2] = <<1, 2>>[2] * x[2]
    BY <1>1, FractionsClosed
  <2>2. Y \in Fractions /\ Y[1] = <<1, 2>>[1] * y[1] /\ Y[2] = <<1, 2>>[2] * y[2]
    BY <1>1, FractionsClosed
  <2> HIDE DEF X, Y
  <2> QED BY <2>1, <2>2, <1>2
<1> HIDE DEF X, Y
<1>4. /\ mean \in Fractions
      /\ mean[1] = x[1] * (2 * y[2]) + y[1] * (2 * x[2])
      /\ mean[2] = (2 * x[2]) * (2 * y[2])
  BY <1>3, FractionsClosed
<1> HIDE DEF mean
<1> DEFINE p == (x[2] - x[1]) * y[2]
           q == (y[2] - y[1]) * x[2]
<1>5. /\ p \in Nat /\ (p = 0 <=> x[1] = x[2])
      /\ q \in Nat /\ (q = 0 <=> y[1] = y[2])
  <2>1. x[2] - x[1] \in Nat /\ y[2] - y[1] \in Nat
    BY <1>2
  <2>2. \A d \in Nat, k \in Nat \ {0} : d * k \in Nat /\ (d * k = 0 <=> d = 0)
    OBVIOUS
  <2>3. x[2] - x[1] = 0 <=> x[1] = x[2]
    BY <1>2
  <2>4. y[2] - y[1] = 0 <=> y[1] = y[2]
    BY <1>2
  <2> QED BY <2>1, <2>2, <2>3, <2>4, <1>2
<1>6. mean[2] - mean[1] = 2 * p + 2 * q
  BY <1>2, <1>4
<1>7. mean[1] \in Int /\ mean[2] \in Int
  BY <1>4 DEF Fractions
<1>8. mean[2] <= mean[1] <=> x[1] = x[2] /\ y[1] = y[2]
  <2> HIDE DEF p, q
  <2> QED BY <1>5, <1>6, <1>7
<1>9. x[1] = 0 /\ y[1] = 0 => mean[1] = 0
  BY <1>2, <1>4
<1>10. x[1] = 0 => 0 <= mean[1] /\ 2 * mean[1] <= mean[2]
  <2> SUFFICES ASSUME x[1] = 0 PROVE 0 <= mean[1] /\ 2 * mean[1] <= mean[2]
    OBVIOUS
  <2>1. mean[1] = 2 * (y[1] * x[2]) /\ mean[2] = 4 * (y[2] * x[2])
    BY <1>2, <1>4
  <2>2. y[1] * x[2] <= y[2] * x[2] /\ 0 <= y[1] * x[2]
    BY <1>2
  <2>3. y[1] * x[2] \in Int /\ y[2] * x[2] \in Int
    BY <1>2
  <2> QED BY <2>1, <2>2, <2>3
<1>11. mean = Mean2(x, y)
  BY Zenon DEF Mean2, mean, X, Y
<1> QED BY <1>4, <1>8, <1>9, <1>10, <1>11, Zenon

\* A part of a rectangle is no larger, and as large only if it is all of it.
LEMMA RectanglesOverlap ==
    ASSUME NEW i \in Nat, NEW j \in Nat, NEW w \in Nat, NEW h \in Nat,
           i <= w, j <= h
    PROVE  /\ i * j \in Nat /\ w * h \in Nat /\ i * j <= w * h
           /\ i * j = w * h /\ w * h # 0 => i = w /\ j = h /\ w # 0 /\ h # 0
<1>1. i * j \in Nat /\ w * h \in Nat /\ i * h \in Nat
  OBVIOUS
<1>2. i * j <= i * h
  OBVIOUS
<1>3. i * h <= w * h
  OBVIOUS
<1>4. w * h # 0 => w # 0 /\ h # 0
  OBVIOUS
<1>5. w * h - i * h = (w - i) * h /\ i * h - i * j = i * (h - j)
  OBVIOUS
<1>6. \A m, n \in Nat : m * n = 0 => m = 0 \/ n = 0
  OBVIOUS
<1>7. w - i \in Nat /\ h - j \in Nat
  OBVIOUS
<1>8. ASSUME i * j = w * h, w * h # 0 PROVE i = w /\ j = h
  <2>1. (w - i) * h = 0 /\ i * (h - j) = 0
    BY <1>1, <1>2, <1>3, <1>5, <1>8
  <2>2. w - i = 0
    BY <2>1, <1>4, <1>6, <1>7, <1>8
  <2>3. i # 0
    BY <2>2, <1>4, <1>8
  <2>4. h - j = 0
    BY <2>1, <2>3, <1>6, <1>7
  <2> QED BY <2>2, <2>4
<1> QED BY <1>1, <1>2, <1>3, <1>4, <1>8

\* The overlap of two boxes is symmetric, lies in 0..1, and is 1 exactly for
\* the same box with something in it.
LEMMA IouIs ==
    ASSUME NEW a, NEW b, a = Missing \/ a \in Boxes, b = Missing \/ b \in Boxes
    PROVE  /\ IsUnit(iou(a, b)) /\ iou(a, b) = iou(b, a)
           /\ iou(a, b)[1] = iou(a, b)[2] <=>
                a = b /\ a # Missing /\ area(a) > 0
<1>1. CASE a = Missing \/ b = Missing
  <2>1. iou(a, b) = Zero /\ iou(b, a) = Zero
    BY <1>1, Zenon DEF iou
  <2> QED BY <2>1, <1>1, ZeroAndOne
<1>2. CASE a # Missing /\ b # Missing
  <2> DEFINE ix == overlap(a.x, a.width, b.x, b.width)
             iy == overlap(a.y, a.height, b.y, b.height)
             A == area(a)
             B == area(b)
             I == ix * iy
  <2>t. a \in Boxes /\ b \in Boxes
    BY <1>2
  <2>1. /\ a.x \in Int /\ a.y \in Int /\ a.width \in Nat /\ a.height \in Nat
        /\ b.x \in Int /\ b.y \in Int /\ b.width \in Nat /\ b.height \in Nat
    BY <2>t DEF Boxes
  <2> DEFINE Ranges(o, back, p, m, q, n) ==
               /\ o \in Nat /\ o <= m /\ o <= n /\ o = back
               /\ p = q /\ m = n => o = m
               /\ (o = m /\ o = n /\ m # 0) => p = q /\ m = n
  <2>s. /\ Ranges(ix, overlap(b.x, b.width, a.x, a.width),
                  a.x, a.width, b.x, b.width)
        /\ Ranges(iy, overlap(b.y, b.height, a.y, a.height),
                  a.y, a.height, b.y, b.height)
    <3>1. \A p, q \in Int, m, n \in Nat :
            Ranges(overlap(p, m, q, n), overlap(q, n, p, m), p, m, q, n)
      BY DEF overlap, Lower, Higher
    <3> HIDE DEF Ranges
    <3> QED BY <3>1, <2>1, Zenon
  <2>2. /\ ix \in Nat /\ ix <= a.width /\ ix <= b.width
        /\ ix = overlap(b.x, b.width, a.x, a.width)
        /\ a.x = b.x /\ a.width = b.width => ix = a.width
        /\ (ix = a.width /\ ix = b.width /\ a.width # 0)
             => a.x = b.x /\ a.width = b.width
    <3> HIDE DEF ix, iy
    <3> QED BY <2>1, <2>s
  <2>3. /\ iy \in Nat /\ iy <= a.height /\ iy <= b.height
        /\ iy = overlap(b.y, b.height, a.y, a.height)
        /\ a.y = b.y /\ a.height = b.height => iy = a.height
        /\ (iy = a.height /\ iy = b.height /\ a.height # 0)
             => a.y = b.y /\ a.height = b.height
    <3> HIDE DEF ix, iy
    <3> QED BY <2>1, <2>s
  <2> DEFINE other == overlap(b.x, b.width, a.x, a.width)
                      * overlap(b.y, b.height, a.y, a.height)
  <2>4. /\ iou(a, b) = IF A + B - I > 0 THEN <<I, A + B - I>> ELSE Zero
        /\ iou(b, a) = IF B + A - other > 0 THEN <<other, B + A - other>>
                       ELSE Zero
    BY <1>2, Zenon DEF iou
  <2>5. other = I
    BY <2>2, <2>3
  <2> HIDE DEF other, ix, iy
  <2>6. /\ I \in Nat /\ A \in Nat /\ I <= A
        /\ I = A /\ A # 0 => /\ ix = a.width /\ iy = a.height
                             /\ a.width # 0 /\ a.height # 0
    BY <2>1, <2>2, <2>3, RectanglesOverlap DEF area
  <2>7. /\ B \in Nat /\ I <= B
        /\ I = B /\ B # 0 => ix = b.width /\ iy = b.height
    BY <2>1, <2>2, <2>3, RectanglesOverlap DEF area
  <2>8. a = b => I = A /\ A = B
    BY <2>2, <2>3 DEF area
  <2>9. I = A /\ I = B /\ A # 0 => a = b
    <3> SUFFICES ASSUME I = A, I = B, A # 0 PROVE a = b
      OBVIOUS
    <3>1. /\ ix = a.width /\ iy = a.height /\ ix = b.width /\ iy = b.height
          /\ a.width # 0 /\ a.height # 0
      BY <2>6, <2>7
    <3>2. /\ a.x = b.x /\ a.y = b.y /\ a.width = b.width
          /\ a.height = b.height
      BY <3>1, <2>2, <2>3
    <3> QED BY <3>2, <2>t DEF Boxes
  <2> HIDE DEF A, B, I
  <2>10. iou(a, b) = iou(b, a)
    BY <2>4, <2>5, <2>6, <2>7
  <2>11. IsUnit(iou(a, b))
    <3>1. CASE A + B - I > 0
      <4>1. iou(a, b) = <<I, A + B - I>>
        BY <3>1, <2>4
      <4>2. A + B - I \in Nat \ {0} /\ I <= A + B - I /\ I \in Int /\ 0 <= I
        BY <3>1, <2>6, <2>7
      <4> QED BY <4>1, <4>2 DEF IsUnit, Fractions
    <3>2. CASE ~(A + B - I > 0)
      BY <3>2, <2>4, ZeroAndOne
    <3> QED BY <3>1, <3>2
  <2>12. iou(a, b)[1] = iou(a, b)[2] <=> a = b /\ A > 0
    <3>1. CASE A + B - I > 0
      <4>1. iou(a, b)[1] = I /\ iou(a, b)[2] = A + B - I
        BY <3>1, <2>4
      <4>2. I = A + B - I <=> I = A /\ I = B
        BY <2>6, <2>7
      <4>3. I = A /\ I = B => A # 0
        BY <3>1, <2>6
      <4> QED BY <4>1, <4>2, <4>3, <2>6, <2>8, <2>9
    <3>2. CASE ~(A + B - I > 0)
      <4>1. A = 0
        BY <3>2, <2>6, <2>7
      <4> QED BY <4>1, <3>2, <2>4, ZeroAndOne
    <3> QED BY <3>1, <3>2
  <2> QED BY <2>10, <2>11, <2>12, <1>2 DEF A
<1> QED BY <1>1, <1>2

LEMMA SizeIs ==
    ASSUME NEW a, NEW b, a = Missing \/ a \in Boxes, b = Missing \/ b \in Boxes
    PROVE  /\ IsUnit(size_proximity(a, b))
           /\ size_proximity(a, b) = size_proximity(b, a)
           /\ (a = b /\ a # Missing /\ area(a) > 0) =>
                size_proximity(a, b)[1] = size_proximity(a, b)[2]
<1>1. CASE a = Missing \/ b = Missing
  <2>1. size_proximity(a, b) = Zero /\ size_proximity(b, a) = Zero
    BY <1>1, Zenon DEF size_proximity
  <2> QED BY <2>1, <1>1, ZeroAndOne
<1>2. CASE a # Missing /\ b # Missing
  <2> DEFINE A == area(a)
             B == area(b)
  <2>t. a \in Boxes /\ b \in Boxes
    BY <1>2
  <2>1. /\ a.width \in Nat /\ a.height \in Nat
        /\ b.width \in Nat /\ b.height \in Nat
    BY <2>t DEF Boxes
  <2>2. A \in Nat /\ B \in Nat
    BY <2>1 DEF area
  <2>3. /\ size_proximity(a, b) = IF A <= 0 \/ B <= 0 THEN Zero
                                  ELSE <<Lower(A, B), Higher(A, B)>>
        /\ size_proximity(b, a) = IF B <= 0 \/ A <= 0 THEN Zero
                                  ELSE <<Lower(B, A), Higher(B, A)>>
    BY <1>2, Zenon DEF size_proximity
  <2>e. a = b => A = B
    OBVIOUS
  <2> HIDE DEF A, B
  <2>4. CASE A <= 0 \/ B <= 0
    <3>1. size_proximity(a, b) = Zero /\ size_proximity(b, a) = Zero
      BY <2>3, <2>4
    <3>2. ~(a = b /\ A > 0)
      BY <2>2, <2>4, <2>e
    <3> QED BY <3>1, <3>2, ZeroAndOne DEF A
  <2>5. CASE ~(A <= 0 \/ B <= 0)
    <3> DEFINE lo == Lower(A, B)
               hi == Higher(A, B)
    <3>1. /\ lo \in Nat \ {0} /\ hi \in Nat \ {0} /\ lo <= hi
          /\ A = B => lo = hi
          /\ lo = Lower(B, A) /\ hi = Higher(B, A)
      BY <2>2, <2>5 DEF Lower, Higher
    <3>2. size_proximity(a, b) = <<lo, hi>> /\ size_proximity(b, a) = <<lo, hi>>
      BY <2>3, <2>5, <3>1
    <3> HIDE DEF lo, hi
    <3> QED BY <3>1, <3>2, <2>e DEF IsUnit, Fractions
  <2> QED BY <2>4, <2>5
<1> QED BY <1>1, <1>2

LEMMA VisualIs ==
    ASSUME NEW a, NEW b, a = Missing \/ a \in Boxes, b = Missing \/ b \in Boxes
    PROVE  /\ IsUnit(visual(a, b)) /\ visual(a, b) = visual(b, a)
           /\ visual(a, b)[1] = visual(a, b)[2] <=>
                a = b /\ a # Missing /\ area(a) > 0
           /\ iou(a, b)[1] = 0 => 2 * visual(a, b)[1] <= visual(a, b)[2]
<1> DEFINE x == iou(a, b)
           y == size_proximity(a, b)
           mean == Mean2(x, y)
<1>1. visual(a, b) = Clamp01(mean)
  BY Zenon DEF visual, Mean2
<1>2. visual(b, a) = visual(a, b)
  <2>1. iou(b, a) = x /\ size_proximity(b, a) = y
    BY IouIs, SizeIs
  <2>2. visual(b, a) = Clamp01(Mean2(iou(b, a), size_proximity(b, a)))
    BY Zenon DEF visual, Mean2
  <2> HIDE DEF x, y
  <2> QED BY <1>1, <2>1, <2>2
<1>3. IsUnit(x) /\ IsUnit(y)
  BY IouIs, SizeIs
<1>4. x[1] = x[2] <=> a = b /\ a # Missing /\ area(a) > 0
  BY IouIs
<1>5. (a = b /\ a # Missing /\ area(a) > 0) => y[1] = y[2]
  BY SizeIs
<1> HIDE DEF x, y
<1>6. /\ mean \in Fractions
      /\ mean[2] <= mean[1] <=> x[1] = x[2] /\ y[1] = y[2]
      /\ x[1] = 0 => 0 <= mean[1] /\ 2 * mean[1] <= mean[2]
  BY <1>3, BlendOfTwo
<1> HIDE DEF mean
<1>7. /\ IsUnit(Clamp01(mean))
      /\ Clamp01(mean)[1] = Clamp01(mean)[2] <=> mean[2] <= mean[1]
      /\ Clamp01(mean) \in {Zero, One, mean}
      /\ mean[1] <= 0 => Clamp01(mean) = Zero
      /\ 0 < mean[1] /\ mean[1] < mean[2] => Clamp01(mean) = mean
  BY <1>6, Clamped
<1>8. visual(a, b)[1] = visual(a, b)[2] <=>
        a = b /\ a # Missing /\ area(a) > 0
  BY <1>1, <1>4, <1>5, <1>6, <1>7
<1>9. x[1] = 0 => 2 * visual(a, b)[1] <= visual(a, b)[2]
  <2> SUFFICES ASSUME x[1] = 0 PROVE 2 * visual(a, b)[1] <= visual(a, b)[2]
    OBVIOUS
  <2>1. mean[1] \in Int /\ mean[2] \in Nat \ {0}
    BY <1>6 DEF Fractions
  <2>2. CASE mean[1] = 0
    BY <2>2, <1>1, <1>7, ZeroAndOne
  <2>3. CASE mean[1] # 0
    <3>1. 0 < mean[1] /\ mean[1] < mean[2]
      BY <2>1, <2>3, <1>6
    <3> QED BY <3>1, <1>1, <1>6, <1>7
  <2> QED BY <2>2, <2>3
<1> QED BY <1>1, <1>2, <1>7, <1>8, <1>9 DEF x

LEMMA A11yIs ==
    ASSUME NEW c, NEW b, NEW names, RatioIsSound(names),
           c.name \in names, b.name \in names
    PROVE  /\ IsUnit(a11y_sim(c, b))
           /\ a11y_sim(c, b)[1] = a11y_sim(c, b)[2] <=>
                /\ c.role = b.role /\ c.role # Missing
                /\ c.name = b.name /\ c.name # Missing
           /\ (/\ c.role # b.role \/ c.role = Missing
               /\ c.name = Missing \/ b.name = Missing) =>
                a11y_sim(c, b) = Zero
<1> DEFINE given == NameRatio(c.name, b.name)
           ratio == CASE c.name = Missing /\ b.name = Missing -> Zero
                      [] c.name = b.name /\ c.name # Missing -> One
                      [] OTHER -> given
           x == same(c.role, b.role)
           mean == Mean2(x, ratio)
<1>1. a11y_sim(c, b) = Clamp01(mean)
  BY Zenon DEF a11y_sim, Mean2
<1>2. /\ given \in Nat \X (Nat \ {0}) /\ given[1] <= given[2]
      /\ c.name # b.name => given[1] < given[2]
      /\ Missing \in {c.name, b.name} => given[1] = 0
  BY Zenon DEF RatioIsSound
<1>3. IsUnit(given)
  BY <1>2 DEF IsUnit, Fractions
<1>4. /\ c.name = Missing \/ b.name = Missing => given[1] = 0
      /\ c.name # b.name => given[1] # given[2]
  BY <1>2
<1> HIDE DEF given
<1>5. /\ IsUnit(ratio)
      /\ c.name = Missing \/ b.name = Missing => ratio[1] = 0
      /\ ratio[1] = ratio[2] <=> c.name = b.name /\ c.name # Missing
  <2>1. CASE c.name = Missing /\ b.name = Missing
    BY <2>1, ZeroAndOne
  <2>2. CASE c.name = b.name /\ c.name # Missing
    BY <2>2, ZeroAndOne
  <2>3. CASE /\ ~(c.name = Missing /\ b.name = Missing)
             /\ ~(c.name = b.name /\ c.name # Missing)
    BY <2>3, <1>3, <1>4
  <2> QED BY <2>1, <2>2, <2>3
<1>6. /\ IsUnit(x) /\ (c.role # b.role \/ c.role = Missing => x[1] = 0)
      /\ x[1] = x[2] <=> c.role = b.role /\ c.role # Missing
  BY SameIs, ZeroAndOne
<1> HIDE DEF ratio, x
<1>7. /\ mean \in Fractions /\ (x[1] = 0 /\ ratio[1] = 0 => mean[1] = 0)
      /\ mean[2] <= mean[1] <=> x[1] = x[2] /\ ratio[1] = ratio[2]
  BY <1>5, <1>6, BlendOfTwo
<1> HIDE DEF mean
<1>8. /\ IsUnit(Clamp01(mean)) /\ (mean[1] <= 0 => Clamp01(mean) = Zero)
      /\ Clamp01(mean)[1] = Clamp01(mean)[2] <=> mean[2] <= mean[1]
  BY <1>7, Clamped
<1> QED BY <1>1, <1>5, <1>6, <1>7, <1>8

---------------------------------------------------------------------------
(* The confidence, the outcome and the rates.                              *)

\* A look of at most a half, and nothing else, makes a confidence of at most a
\* tenth.
LEMMA LookAlone ==
    ASSUME NEW v, IsUnit(v), 2 * v[1] <= v[2], NEW high \in Int, high > 10,
           NEW s, s.dom = Zero, s.visual = v, s.a11y = Zero, s.history = Zero
    PROVE  ~Leq(<<high, 100>>, confidence(s, HealWeights))
<1> DEFINE part(k, x) == Times(<<k, 1>>, x)
           raw == Plus(Plus(part(3, Zero), part(2, v)),
                       Plus(part(3, Zero), part(2, Zero)))
           mean == Times(raw, <<1, 10>>)
<1>1. v[1] \in Nat /\ v[2] \in Nat \ {0}
  BY DEF IsUnit, Fractions
<1>2. confidence(s, HealWeights) = Clamp01(mean)
  <2>1. /\ HealWeights.dom = 3 /\ HealWeights.visual = 2
        /\ HealWeights.a11y = 3 /\ HealWeights.history = 2
    BY DEF HealWeights
  <2> DEFINE tot == HealWeights.dom + HealWeights.visual + HealWeights.a11y
                      + HealWeights.history
  <2>2. tot = 10 /\ (IF tot = 0 THEN 1 ELSE tot) = 10
    BY <2>1
  <2>3. confidence(s, HealWeights) =
          Clamp01(Times(Plus(Plus(part(HealWeights.dom, s.dom),
                                  part(HealWeights.visual, s.visual)),
                             Plus(part(HealWeights.a11y, s.a11y),
                                  part(HealWeights.history, s.history))),
                        <<1, IF tot = 0 THEN 1 ELSE tot>>))
    BY Zenon DEF confidence
  <2> HIDE DEF tot
  <2> QED BY <2>1, <2>2, <2>3, Zenon
<1>3. part(3, Zero) = <<0, 1>> /\ part(2, Zero) = <<0, 1>>
  BY DEF Times, Zero
<1>4. part(2, v) = <<2 * v[1], v[2]>>
  BY <1>1 DEF Times
<1> HIDE DEF part
<1>5. Plus(part(3, Zero), part(2, Zero)) = <<0, 1>>
  BY <1>3 DEF Plus
<1>6. Plus(part(3, Zero), part(2, v)) = <<2 * v[1], v[2]>>
  BY <1>1, <1>3, <1>4 DEF Plus
<1>7. raw = <<2 * v[1], v[2]>>
  BY <1>1, <1>5, <1>6 DEF Plus
<1> HIDE DEF raw
<1>8. mean = <<2 * v[1], v[2] * 10>>
  BY <1>1, <1>7 DEF Times
<1> HIDE DEF mean
<1>9. mean \in Fractions /\ mean[1] = 2 * v[1] /\ mean[2] = v[2] * 10
  BY <1>1, <1>8 DEF Fractions
<1>10. CASE v[1] = 0
  <2>1. Clamp01(mean) = Zero
    BY <1>9, <1>10, Clamped
  <2> QED BY <2>1, <1>2 DEF Leq, Zero
<1>11. CASE v[1] # 0
  <2>1. Clamp01(mean) = mean
    BY <1>1, <1>9, <1>11, Clamped
  <2>2. high * (v[2] * 10) > (2 * v[1]) * 100
    <3>1. high * (v[2] * 10) >= 11 * (v[2] * 10)
      BY <1>1
    <3>2. high * (v[2] * 10) \in Int
      BY <1>1
    <3> QED BY <3>1, <3>2, <1>1
  <2> QED BY <2>1, <2>2, <1>1, <1>2, <1>8 DEF Leq
<1> QED BY <1>10, <1>11

LEMMA SizeAlone ==
    ASSUME NEW c, NEW b, NEW names, RatioIsSound(names),
           IsElement(c, names), IsElement(b, names),
           NEW high \in Int, NEW med \in Int
    PROVE  NeverHealedBySize(c, b, high, med)
<1> DEFINE s == score_candidate(c, b, {})
           conf == confidence(s, HealWeights)
<1>1. SUFFICES ASSUME c.attrs \cap b.attrs = {},
                      c.tag # b.tag \/ c.tag = Missing,
                      c.xpath = <<>> \/ b.xpath = <<>>,
                      c.role # b.role \/ c.role = Missing,
                      c.name = Missing \/ b.name = Missing,
                      iou(c.bbox, b.bbox)[1] = 0, high > 10
               PROVE  heal_outcome(conf, 1, high, med) # "auto_heal"
  BY Zenon DEF NeverHealedBySize
<1>2. dom_sim(c, b) = Zero
  BY <1>1, DomIs DEF IsElement
<1>3. a11y_sim(c, b) = Zero
  BY <1>1, A11yIs DEF IsElement
<1>4. /\ IsUnit(visual(c.bbox, b.bbox))
      /\ 2 * visual(c.bbox, b.bbox)[1] <= visual(c.bbox, b.bbox)[2]
  BY <1>1, VisualIs DEF IsElement
<1>5. history_sim(c.chain, {}) = Zero
  BY DEF history_sim
<1>6. /\ s.dom = Zero /\ s.visual = visual(c.bbox, b.bbox)
      /\ s.a11y = Zero /\ s.history = Zero
  BY <1>2, <1>3, <1>5 DEF score_candidate
<1> HIDE DEF s
<1>7. ~Leq(<<high, 100>>, conf)
  BY <1>1, <1>4, <1>6, LookAlone
<1> HIDE DEF conf
<1> QED BY <1>7 DEF heal_outcome

\* The rows a reviewer rejected and the ones that count as healed are apart.
LEMMA RejectedApart ==
    ASSUME NEW S, NEW rows \in Seq(S)
    PROVE  NoRejectedSuccess(rows)
<1> DEFINE good == {i \in DOMAIN rows :
                      /\ rows[i].outcome \in {"auto_heal", "applied"}
                      /\ rows[i].reviewed_outcome # "rejected"}
           bad == {i \in DOMAIN rows : rows[i].reviewed_outcome = "rejected"}
           autos == {i \in DOMAIN rows : rows[i].outcome = "auto_heal"}
           D == DOMAIN rows
<1>1. healed(rows) = Cardinality(good)
  BY Zenon DEF healed, RowsWith
<1>2. per_element_heal_stats(rows).heal_success_rate =
        <<Cardinality(good), Len(rows)>>
  BY <1>1 DEF per_element_heal_stats
<1>3. D = 1..Len(rows) /\ Len(rows) \in Nat
  OBVIOUS
<1>4. IsFiniteSet(D) /\ Cardinality(D) = Len(rows)
  <2>1. IsFiniteSet(1..Len(rows)) /\ Cardinality(1..Len(rows)) = Len(rows)
    BY <1>3, FS_Interval
  <2> QED BY <2>1, <1>3
<1>5. good \subseteq D /\ bad \subseteq D /\ autos \subseteq D /\ good \cap bad = {}
  OBVIOUS
<1>a. per_element_heal_stats(rows).false_heal_rate =
        IF Cardinality(autos) = 0 THEN Zero
        ELSE <<Cardinality(bad), Cardinality(autos)>>
  <2>1. /\ RowsWith(rows, LAMBDA q : q.outcome = "auto_heal") = Cardinality(autos)
        /\ RowsWith(rows, LAMBDA q : q.reviewed_outcome = "rejected") = Cardinality(bad)
    BY Zenon DEF RowsWith
  <2> QED BY <2>1 DEF per_element_heal_stats
<1>b. (\A i \in bad : rows[i].outcome = "auto_heal") => bad \subseteq autos
  OBVIOUS
<1> HIDE DEF good, bad, autos, D
<1>c. bad \subseteq autos => Cardinality(bad) <= Cardinality(autos)
  <2>1. IsFiniteSet(autos)
    BY <1>4, <1>5, FS_Subset
  <2> QED BY <2>1, FS_Subset, Zenon
<1>6. IsFiniteSet(good) /\ IsFiniteSet(bad)
  BY <1>4, <1>5, FS_Subset
<1>7. /\ IsFiniteSet(good \cup bad)
      /\ Cardinality(good \cup bad) = Cardinality(good) + Cardinality(bad)
           - Cardinality(good \cap bad)
  BY <1>6, FS_Union, Zenon
<1>8. Cardinality(good \cap bad) = 0
  BY <1>5, FS_EmptySet, Zenon
<1>9. Cardinality(good \cup bad) <= Cardinality(D)
  <2>1. good \cup bad \subseteq D
    BY <1>5
  <2> QED BY <2>1, <1>4, FS_Subset, Zenon
<1>10. Cardinality(good) \in Nat /\ Cardinality(bad) \in Nat
  BY <1>6, FS_CardinalityType
<1>11. Cardinality(good) + Cardinality(bad) <= Len(rows)
  BY <1>3, <1>4, <1>7, <1>8, <1>9, <1>10
<1> DEFINE rate == per_element_heal_stats(rows).heal_success_rate
<1>12. rate[1] = Cardinality(good) /\ rate[2] = Len(rows)
  BY <1>2
<1>13. rate[1] + Cardinality(bad) <= rate[2]
  BY <1>11, <1>12
<1> DEFINE false == per_element_heal_stats(rows).false_heal_rate
<1>14. ASSUME \A i \in bad : rows[i].outcome = "auto_heal"
       PROVE  false[1] <= false[2]
  <2>1. Cardinality(bad) <= Cardinality(autos)
    BY <1>14, <1>b, <1>c
  <2> QED BY <2>1, <1>a, ZeroAndOne
<1> HIDE DEF rate, false
<1> QED BY <1>13, <1>14, Zenon DEF NoRejectedSuccess, rate, false, bad

LEMMA Similarity ==
    ASSUME NEW c, NEW b, NEW names, RatioIsSound(names),
           IsElement(c, names), IsElement(b, names)
    PROVE  SoundSimilarity(c, b)
<1> DEFINE dom == dom_sim(c, b)
           look == visual(c.bbox, b.bbox)
           voice == a11y_sim(c, b)
           Certain(x) == x[1] = x[2]
           Features(e) == <<e.attrs, e.tag, e.xpath>>
<1>1. \A x \in {dom, look, voice} : 0 <= x[1] /\ x[1] <= x[2]
  <2>1. IsUnit(dom) /\ IsUnit(look) /\ IsUnit(voice)
    BY DomIs, VisualIs, A11yIs DEF IsElement
  <2> HIDE DEF dom, look, voice
  <2> QED BY <2>1 DEF IsUnit
<1>2. dom = dom_sim(b, c) /\ look = visual(b.bbox, c.bbox)
  BY DomIs, VisualIs DEF IsElement
<1>3. Certain(dom) <=> /\ Features(c) = Features(b)
                       /\ Features(c) # <<{}, Missing, <<>>>>
  <2>1. dom[1] = dom[2] <=>
          /\ c.attrs = b.attrs /\ c.tag = b.tag /\ c.xpath = b.xpath
          /\ c.attrs # {} \/ c.tag # Missing \/ c.xpath # <<>>
    BY DomIs DEF IsElement
  <2>2. Features(c) = Features(b) <=>
          c.attrs = b.attrs /\ c.tag = b.tag /\ c.xpath = b.xpath
    OBVIOUS
  <2>3. Features(c) = <<{}, Missing, <<>>>> <=>
          c.attrs = {} /\ c.tag = Missing /\ c.xpath = <<>>
    OBVIOUS
  <2> HIDE DEF Features, dom
  <2> QED BY <2>1, <2>2, <2>3
<1>4. Certain(look) <=> /\ c.bbox = b.bbox
                        /\ c.bbox # Missing /\ area(c.bbox) > 0
  BY VisualIs DEF IsElement
<1>5. Certain(voice) <=> /\ c.role = b.role /\ c.role # Missing
                         /\ c.name = b.name /\ c.name # Missing
  BY A11yIs DEF IsElement
<1> QED BY <1>1, <1>2, <1>3, <1>4, <1>5, Zenon DEF SoundSimilarity

---------------------------------------------------------------------------
(* The algorithms, on any sets of inputs.                                  *)

\* The input is one of its kind.
PickInv ==
    \/ kind = "none"
    \/ kind = "graph" /\ input \in Graphs
    \/ kind = "ranking" /\ input \in Rankings
    \/ kind = "elements" /\ input \in Elements \X Elements
    \/ kind = "heals" /\ input \in HealLedgers
    \/ kind = "database" /\ input \in Databases
    \/ kind = "coverage" /\ input \in Truths \X SUBSET Discoveries
    \/ kind = "soak" /\ input \in Soaks
    \/ kind = "failure" /\ input \in (SUBSET Patterns) \X HealOutcomes

LEMMA PickStays ==
    /\ PickInit => PickInv
    /\ PickInv /\ [PickNext]_pickVars => PickInv'
<1>1. PickInit => PickInv
  BY Zenon DEF PickInit, PickInv
<1>2. PickInv /\ UNCHANGED pickVars => PickInv'
  BY DEF PickInv, pickVars
<1>3. PickNext => PickInv'
  BY Zenon DEF PickNext, PickInv, Pick, PickGraph, PickRanking, PickElements,
               PickHealRows, PickDatabase, PickCoverage, PickSoak,
               PickFailure
<1> QED BY <1>1, <1>2, <1>3

\* In any database whose keys and references hold, whatever was mined, the
\* chain of a defect has the defect and exactly its executions, and each of
\* its parts is part of the chain of its run (chain, _resolve_keys, segment).
THEOREM ChainsNestTheorem == PickSpec => []ChainsNest
<1>1. ASSUME PickInv PROVE ChainsNest
  <2>1. kind = "database" => SoundDatabase(input)
    BY <1>1, AlgorithmsAssumption DEF PickInv
  <2> QED BY <2>1, ChainNesting DEF ChainsNest
<1> QED BY <1>1, PickStays, PTL DEF PickSpec

\* A backfill of an index of no more than their documents, from any rows, leaves
\* a document for every row and no other.  An execution's has all that the write
\* at the time indexed of it and can be found by its text.  A failure's has lost
\* the text that its write indexed, and search() finds not one of them (backfill,
\* index_execution, index_failure, search).
THEOREM BackfillTheorem == PickSpec => []BackfillLosesOnlyFailureText
<1>1. BackfillLosesOnlyFailureText
  BY Refilling, Zenon DEF BackfillLosesOnlyFailureText
<1> QED BY <1>1, PTL

\* For any finite ground truths, any pages discovered and any soaks of at least n
\* runs, coverage never falls when a page is found, counts a flow only when all
\* of its pages were, and is a measured zero for a discovery none of whose pages
\* is in the ground truth; an accepted spec was green in each of the n runs and
\* red against the seeded bug, and without the bug's url there is no verdict
\* (compute_coverage, accept_spec, run_stability).
THEOREM ReportsTheorem == PickSpec => []ReportsAreExact
<1>1. ASSUME PickInv PROVE CoverageIsExact
  <2>1. SUFFICES ASSUME kind = "coverage", NEW p \in Discoveries
                 PROVE  ExactCoverage(input[1], input[2], p)
    BY DEF CoverageIsExact
  <2>2. input[1] \in Truths
    BY <1>1, <2>1 DEF PickInv
  <2>3. IsFiniteSet(input[1].pages) /\ IsFiniteSet(input[1].flows)
    BY <2>2, AlgorithmsAssumption
  <2> QED BY <2>3, CoverageExact
<1>2. ASSUME PickInv PROVE AcceptedIsStable
  <2>1. SUFFICES ASSUME kind = "soak"
                 PROVE  StableIfAccepted(input.outcomes, input.n, input.buggy,
                                         input.bug_url)
    BY DEF AcceptedIsStable
  <2>2. /\ input.outcomes \in Seq(BOOLEAN) /\ input.n \in Nat
        /\ input.n <= Len(input.outcomes) /\ input.buggy \in BOOLEAN
        /\ input.bug_url \in BOOLEAN
    <3>1. input \in Soaks
      BY <1>2, <2>1 DEF PickInv
    <3> QED BY <3>1, AlgorithmsAssumption, Zenon
  <2> QED BY <2>2, AcceptedStable
<1>3. PickInv => ReportsAreExact
  BY <1>1, <1>2 DEF ReportsAreExact
<1> QED BY <1>3, PickStays, PTL DEF PickSpec

\* The scores of any elements a page can hold (finitely many attribute tokens,
\* a path, boxes with sides that are not negative), with any ratio of names that
\* lies in 0..1 and is below 1 for different names, symmetric or not: each
\* similarity lies in 0..1 and is 1 exactly on agreement, structure and look are
\* symmetric, and size alone never heals, at any thresholds.  Of any rows of the
\* heal ledger no rejected one is a success (dom_sim, visual, a11y_sim,
\* confidence, heal_outcome, per_element_heal_stats).
THEOREM HealScoresTheorem == PickSpec => []HealScoresAreSound
<1>1. ASSUME PickInv, kind = "elements"
      PROVE  IsElement(input[1], Names) /\ IsElement(input[2], Names)
  <2>1. input[1] \in Elements /\ input[2] \in Elements
    BY <1>1 DEF PickInv
  <2> QED BY <2>1, AlgorithmsAssumption
<1>2. RatioIsSound(Names) /\ Thresholds \subseteq Int
  BY AlgorithmsAssumption
<1>3. ASSUME PickInv PROVE SimilarityIsSound
  BY <1>1, <1>2, <1>3, Similarity DEF SimilarityIsSound
<1>4. ASSUME PickInv PROVE SizeAloneNeverHeals
  <2>1. SUFFICES ASSUME kind = "elements", NEW high \in Thresholds,
                        NEW med \in Thresholds
                 PROVE  NeverHealedBySize(input[1], input[2], high, med)
    BY DEF SizeAloneNeverHeals
  <2>2. high \in Int /\ med \in Int
    BY <1>2
  <2> QED BY <1>1, <1>2, <1>4, <2>1, <2>2, SizeAlone
<1>5. ASSUME PickInv PROVE RejectedIsNoSuccess
  <2>1. kind = "heals" => input \in Seq(HealRows)
    BY <1>5, AlgorithmsAssumption DEF PickInv
  <2> QED BY <2>1, RejectedApart DEF RejectedIsNoSuccess
<1>6. PickInv => HealScoresAreSound
  BY <1>3, <1>4, <1>5 DEF HealScoresAreSound
<1> QED BY <1>6, PickStays, PTL DEF PickSpec

============================================================================
