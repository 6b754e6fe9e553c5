----------------------------- MODULE Accounts -----------------------------
(***************************************************************************)
(* Sign-in, sessions and roles.  A session is two signed tokens, a short   *)
(* access token and a long refresh token, told apart by a type claim; the  *)
(* server keeps no list of them.  The role is read off the user's row at   *)
(* the start of a request and the row of the user being changed is read    *)
(* and committed later in the same request, so requests interleave between *)
(* their check and their write.                                            *)
(***************************************************************************)
EXTENDS Naturals, FiniteSets

CONSTANTS
    Users,         \* accounts
    Roles,         \* the role vocabulary
    Admin,         \* the role that manages users
    Clients,       \* browsers or scripts, each with its cookies
    ACCESS,        \* life of an access token, in ticks
    REFRESH        \* life of a refresh token, in ticks

ASSUME AccountsAssumption ==
    /\ Admin \in Roles
    /\ ACCESS \in Nat \ {0} /\ REFRESH \in Nat /\ ACCESS < REFRESH

VARIABLES
    role,          \* the role column
    held,          \* the tokens each client has been given and not cleared
    req,           \* the role change each client is waiting for
    stale          \* history: a change was committed by a former admin

vars == <<role, held, req, stale>>

Idle == [pc |-> "idle"]

\* The longest a session may be kept up after its sign-in.
Limit == REFRESH + ACCESS
Tokens == [sub : Users, type : {"access", "refresh"}, left : 0..REFRESH,
           age : 0..Limit]

\* A role change under way: who asked for it, whose row, the new role, the role
\* the row was loaded with, and "before", history: it was let in while its
\* author was an admin, who has lost the role since.
Changes == [pc : {"load", "commit"}, by : Users, of : Users, new : Roles,
            old : Roles, before : BOOLEAN]

\* seed_admin: some account is an admin from the first start on.
Init ==
    /\ role \in [Users -> Roles]
    /\ \E u \in Users : role[u] = Admin
    /\ held = [c \in Clients |-> {}]
    /\ req = [c \in Clients |-> Idle]
    /\ stale = FALSE

Admins == {u \in Users : role[u] = Admin}

---------------------------------------------------------------------------
(* Tokens.                                                                 *)

\* exp is kept as the time left, and "age" is history: the time since the
\* sign-in the token goes back to.
create_token(sub, type, life, age) ==
    [sub |-> sub, type |-> type, left |-> life, age |-> age]

\* A signature is never forged; an expired token is refused.
decode_token(t) == t.left > 0

\* A client keeps the newest cookie of each kind.
keep(c, new) ==
    {t \in held[c] : \A n \in new : n.type # t.type} \cup new

login(c, u) ==
    /\ held' = [held EXCEPT ![c] =
         keep(c, {create_token(u, "access", ACCESS, 0),
                  create_token(u, "refresh", REFRESH, 0)})]
    /\ UNCHANGED <<role, req, stale>>

\* The refresh token itself is not renewed.
refresh(c) ==
    \E t \in held[c] :
      /\ decode_token(t)
      /\ t.type = "refresh"
      /\ held' = [held EXCEPT ![c] =
           keep(c, {create_token(t.sub, "access", ACCESS, t.age)})]
      /\ UNCHANGED <<role, req, stale>>

\* The cookies are cleared; nothing is revoked on the server.
logout(c) ==
    /\ held' = [held EXCEPT ![c] = {}]
    /\ UNCHANGED <<role, req, stale>>

---------------------------------------------------------------------------
(* A role change: authorise, load the target's row, commit.                *)

\* The tokens that authenticate a request of the client.
get_current_user(c) == {t \in held[c] : decode_token(t) /\ t.type = "access"}

\* Mutant: the role is the one the user had at sign-in, whatever it is now.
require_role_cached(t) == role[t.sub] = Admin \/ t.age > 0

require_role(t) == role[t.sub] = Admin

\* Mutant: the guard against changing one's own role is missing.
authorised_self(c) ==
    \E t \in get_current_user(c), u \in Users, new \in Roles :
      /\ req[c].pc = "idle"
      /\ require_role(t)
      /\ req' = [req EXCEPT ![c] =
           [pc |-> "load", by |-> t.sub, of |-> u, new |-> new, old |-> new,
            before |-> FALSE]]
      /\ UNCHANGED <<role, held, stale>>

\* The gate and the guard of assign_role, which read the caller's row once.
authorised(c) ==
    \E t \in get_current_user(c), u \in Users, new \in Roles :
      /\ req[c].pc = "idle"
      /\ require_role(t)
      /\ u # t.sub
      /\ req' = [req EXCEPT ![c] =
           [pc |-> "load", by |-> t.sub, of |-> u, new |-> new, old |-> new,
            before |-> FALSE]]
      /\ UNCHANGED <<role, held, stale>>

load_target(c) ==
    /\ req[c].pc = "load"
    /\ req' = [req EXCEPT ![c] =
         [pc |-> "commit", by |-> req[c].by, of |-> req[c].of,
          new |-> req[c].new, old |-> role[req[c].of],
          before |-> req[c].before]]
    /\ UNCHANGED <<role, held, stale>>

\* The commit writes the column only when it differs from the row as it was
\* loaded.  Requests of a user it demotes were authorised before.
assign_role(c) ==
    LET q == req[c] IN
    /\ q.pc = "commit"
    /\ role' = IF q.old = q.new THEN role
               ELSE [role EXCEPT ![q.of] = q.new]
    /\ req' = [d \in Clients |->
         CASE d = c -> Idle
           [] d # c /\ req[d] # Idle /\ role'[req[d].by] # Admin ->
                [req[d] EXCEPT !.before = TRUE]
           [] OTHER -> req[d]]
    /\ stale' = (stale \/ (role' # role /\ role[q.by] # Admin))
    /\ UNCHANGED held

\* A token one tick later.  Expired ones are all alike, so their age is
\* forgotten.
aged(t) ==
    IF t.left = 0 THEN t
    ELSE create_token(t.sub, t.type, t.left - 1,
                      IF t.left = 1 THEN 0 ELSE t.age + 1)

\* Time passes.
tick ==
    /\ \E c \in Clients : \E t \in held[c] : t.left > 0
    /\ held' = [c \in Clients |->
         {aged(t) : t \in held[c]}]
    /\ UNCHANGED <<role, req, stale>>

Next ==
    \/ \E c \in Clients, u \in Users : login(c, u)
    \/ \E c \in Clients : refresh(c) \/ logout(c) \/ authorised(c)
                          \/ load_target(c) \/ assign_role(c)
    \/ tick

Spec == Init /\ [][Next]_vars

---------------------------------------------------------------------------
TypeOK ==
    /\ role \in [Users -> Roles]
    /\ held \in [Clients -> SUBSET Tokens]
    /\ req \in [Clients -> {Idle} \cup Changes]
    /\ stale \in BOOLEAN

\* A session ends: no token is good for longer than the life of a refresh
\* token and of an access token after its sign-in, however often the session
\* was renewed (create_token, refresh).
SessionsEnd ==
    \A c \in Clients : \A t \in held[c] : t.age + t.left <= Limit

\* An account loses its power with its role: whoever is no admin any more has
\* only the changes under way that were let in before (require_role).
NoStaleRole ==
    \A c \in Clients :
      (req[c] # Idle /\ role[req[c].by] # Admin) => req[c].before

\* A session carries no power past its time: neither past its last token nor
\* past the role of its account.
SessionsAreSound == TypeOK /\ SessionsEnd /\ NoStaleRole

\* The platform keeps an admin, as long as no change is committed by somebody
\* who was demoted while it was under way (assign_role's guard).
AdminRemains == Admins = {} => stale
===========================================================================
