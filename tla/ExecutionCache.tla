---------------------------- MODULE ExecutionCache ----------------------------
(***************************************************************************)
(* What a plan reads: client.execute with its cache per role and SQL text, *)
(* the index of grants of _fetch_grant_to_role, which is keyed by the      *)
(* identity of a result list, and _show_users, which changes the active    *)
(* role for one statement.  All three are globals of the process, while    *)
(* the account goes on changing.                                           *)
(*                                                                         *)
(* A result list is an object with an id.  CPython gives the id of a list  *)
(* that nothing refers to any more to a new one: the choice of Fresh.      *)
(***************************************************************************)
EXTENDS Naturals

CONSTANTS
  Role,            \* the roles of the account
  GrantManagers,   \* those with MANAGE GRANTS, SECURITYADMIN and ACCOUNTADMIN among them
  DefaultRole,     \* the active role of a new session
  NoRole,
  GrantsText,      \* SHOW GRANTS TO ROLE statements
  UsersText,       \* SHOW USERS
  OtherText,       \* other cacheable statements
  Content,         \* the answers that are a list of rows
  Empty,           \* the list without rows
  Missing,         \* the answer "does not exist", an error
  Partial,         \* SHOW USERS without the columns that need MANAGE GRANTS
  Id,              \* identities of lists
  MaxPlans,        \* bound on plans
  MaxChanges       \* bound on changes of the account

Text == GrantsText \cup {UsersText} \cup OtherText
Answer == Content \cup {Empty, Missing, Partial}
Key == Role \X Text

ASSUME RolesAssumption ==
  /\ GrantManagers \subseteq Role
  /\ DefaultRole \in Role
  /\ NoRole \notin Role

ASSUME TextsAssumption == UsersText \notin GrantsText \cup OtherText

ASSUME AnswersAssumption ==
  /\ Missing \notin Content \cup {Empty, Partial}
  /\ Partial \notin Content \cup {Empty}

ASSUME BoundsAssumption == MaxPlans \in Nat /\ MaxChanges \in Nat

VARIABLES
  account,         \* what Snowflake has for each statement
  role,            \* session.role
  session_role,    \* the role fetch_session memoized for the session, or NoRole
  available_roles, \* the roles it memoized
  planning,        \* a plan is reading
  cache,           \* _EXECUTION_CACHE
  index,           \* _INDEX: what was indexed for the id of a list
  lookup,          \* the last answer given to a fetch
  answers,         \* every answer Snowflake would have given since the plan began
  plans, changes   \* how many there have been

vars == <<account, role, session_role, available_roles, planning, cache, index, lookup,
          answers, plans, changes>>

session == <<role, session_role, available_roles>>

NoLookup == [via |-> "none"]
Nothing == [k \in {} |-> Empty]

-----------------------------------------------------------------------------
\* What Snowflake answers a role.
View(acc, r, text) ==
  IF text = UsersText /\ r \notin GrantManagers THEN Partial ELSE acc[text]

Views(acc) == [k \in Key |-> {View(acc, k[1], k[2])}]

AccountStates ==
  {acc \in [Text -> Content \cup {Empty, Missing}] : acc[UsersText] \in Content}

Init ==
  /\ account \in AccountStates
  /\ role = DefaultRole
  /\ session_role = NoRole
  /\ available_roles = {}
  /\ planning = FALSE
  /\ cache = Nothing
  /\ index = Nothing
  /\ lookup = NoLookup
  /\ answers = [k \in Key |-> {}]
  /\ plans = 0
  /\ changes = 0

\* fetch_session, memoized for the session.
NewSession ==
  /\ role' = DefaultRole
  /\ session_role' = DefaultRole
  /\ \E roles \in SUBSET Role : available_roles' = roles \cup {DefaultRole}

\* The session of an earlier plan, and of what apply did on it.
SameSession ==
  /\ session_role # NoRole
  /\ UNCHANGED session

\* Mutant: the cache of the plan before is kept.
StartPlan_NoReset ==
  /\ ~ planning
  /\ plans < MaxPlans
  /\ NewSession \/ SameSession
  /\ planning' = TRUE
  /\ lookup' = NoLookup
  /\ answers' = Views(account)
  /\ plans' = plans + 1
  /\ UNCHANGED <<account, cache, index, changes>>

\* Blueprint.plan: reset_cache and fetch_session.  _INDEX is not reset.
StartPlan ==
  /\ ~ planning
  /\ plans < MaxPlans
  /\ NewSession \/ SameSession
  /\ planning' = TRUE
  /\ cache' = Nothing
  /\ lookup' = NoLookup
  /\ answers' = Views(account)
  /\ plans' = plans + 1
  /\ UNCHANGED <<account, index, changes>>

-----------------------------------------------------------------------------
\* execute(session, text, cacheable=True) under role r: the list returned and the
\* cache afterwards.  "Does not exist" is an error, and passed on, except for the
\* statements with empty_response_codes: there the cache gets one empty list and
\* the caller another.
Fresh == Id \ {cache[k].id : k \in DOMAIN cache}
Put(f, k, value) == [x \in DOMAIN f \cup {k} |-> IF x = k THEN value ELSE f[x]]
List(i, rows) == [id |-> i, rows |-> rows]

\* Mutant: an error is cached as if it were an answer.
execute_CacheErrors(r, text) ==
  LET k == <<r, text>>
      answer == View(account, r, text)
  IN  IF k \in DOMAIN cache THEN {[list |-> cache[k], cache |-> cache]}
      ELSE {[list |-> List(i, answer), cache |-> Put(cache, k, List(i, answer))] : i \in Fresh}

execute(r, text) ==
  LET k == <<r, text>>
      answer == View(account, r, text)
  IN  IF k \in DOMAIN cache THEN {[list |-> cache[k], cache |-> cache]}
      ELSE IF answer # Missing
        THEN {[list |-> List(i, answer), cache |-> Put(cache, k, List(i, answer))] : i \in Fresh}
      ELSE IF text \in GrantsText
        THEN {[list |-> List(p[1], Empty), cache |-> Put(cache, k, List(p[2], Empty))] :
                p \in {q \in Fresh \X Fresh : q[1] # q[2]}}
      ELSE {[list |-> List(i, Missing), cache |-> cache] : i \in Fresh}

Executed(r, text, result) ==
  /\ cache' = result.cache
  /\ lookup' = [via |-> "execute", key |-> <<r, text>>, rows |-> result.list.rows]

\* A fetch that looks through the answer to a cached statement: SHOW GRANTS TO ROLE
\* in fetch_role_privileges and for a grant of ALL, and whatever is no grant.
Fetch(text) ==
  /\ planning
  /\ \E result \in execute(role, text) : Executed(role, text, result)
  /\ UNCHANGED <<account, session, planning, index, answers, plans, changes>>

\* _fetch_grant_to_role: an id is indexed once, and the index used from then on.
FetchGrantToRole(text) ==
  /\ planning
  /\ \E result \in execute(role, text) :
       LET id == result.list.id
           indexed == IF id \in DOMAIN index THEN index
                      ELSE Put(index, id, result.list.rows)
       IN  /\ cache' = result.cache
           /\ index' = indexed
           /\ lookup' = [via |-> "index", key |-> <<role, text>>, rows |-> indexed[id]]
  /\ UNCHANGED <<account, session, planning, answers, plans, changes>>

\* _show_users.  The memoized role decides whether to change the role, and is the
\* one to go back to.
Eligible == GrantManagers \cap available_roles

\* Mutant: the active role is not changed.
ShowUsers_AsIs ==
  /\ planning
  /\ \E result \in execute(role, UsersText) : Executed(role, UsersText, result)
  /\ UNCHANGED <<account, session, planning, index, answers, plans, changes>>

ShowUsers ==
  /\ planning
  /\ IF session_role \in GrantManagers
       THEN /\ \E result \in execute(role, UsersText) : Executed(role, UsersText, result)
            /\ UNCHANGED role
       ELSE /\ \E r \in Eligible : \E result \in execute(r, UsersText) :
                 Executed(r, UsersText, result)
            /\ role' = session_role
  /\ UNCHANGED <<account, session_role, available_roles, planning, index, answers, plans,
                 changes>>

\* It raises if there is no such role, and the plan is over.
RefuseUsers ==
  /\ planning
  /\ session_role \notin GrantManagers
  /\ Eligible = {}
  /\ planning' = FALSE
  /\ UNCHANGED <<account, session, cache, index, lookup, answers, plans, changes>>

EndPlan ==
  /\ planning
  /\ planning' = FALSE
  /\ UNCHANGED <<account, session, cache, index, lookup, answers, plans, changes>>

\* apply executes the USE ROLE of a change.
UseRole(r) ==
  /\ ~ planning
  /\ session_role # NoRole
  /\ role' = r
  /\ UNCHANGED <<account, session_role, available_roles, planning, cache, index, lookup,
                 answers, plans, changes>>

\* The account changes: a statement of apply, or of somebody else.
AccountChanges ==
  /\ changes < MaxChanges
  /\ account' \in AccountStates \ {account}
  /\ answers' = [k \in Key |-> answers[k] \cup Views(account')[k]]
  /\ changes' = changes + 1
  /\ UNCHANGED <<session, planning, cache, index, lookup, plans>>

Next ==
  \/ StartPlan
  \/ \E text \in GrantsText \cup OtherText : Fetch(text)
  \/ \E text \in GrantsText : FetchGrantToRole(text)
  \/ ShowUsers
  \/ RefuseUsers
  \/ EndPlan
  \/ \E r \in Role : UseRole(r)
  \/ AccountChanges

Spec == Init /\ [][Next]_vars

-----------------------------------------------------------------------------
TypeOK ==
  /\ account \in AccountStates
  /\ role \in Role
  /\ session_role \in Role \cup {NoRole}
  /\ available_roles \subseteq Role
  /\ planning \in BOOLEAN
  /\ DOMAIN cache \subseteq Key
  /\ \A k \in DOMAIN cache : cache[k] \in [id : Id, rows : Answer \ {Missing}]
  /\ DOMAIN index \subseteq Id
  /\ \A i \in DOMAIN index : index[i] \in Answer
  /\ \/ lookup = NoLookup
     \/ lookup \in [via : {"execute", "index"}, key : Key, rows : Answer]
  /\ answers \in [Key -> SUBSET Answer]
  /\ plans \in Nat
  /\ changes \in Nat

\* rows is what Snowflake answered to k at some time since the plan began; a role
\* that does not exist has no grants.
isAnswer(rows, k) ==
  \/ rows \in answers[k]
  \/ rows = Empty /\ Missing \in answers[k]

CacheCurrent == \A k \in DOMAIN cache : isAnswer(cache[k].rows, k)

\* "the object as it existed at the start of the cache window": what a fetch finds
\* in the cache is nothing older than the plan, and nothing another role was shown.
LookupsAreCurrent ==
  lookup # NoLookup /\ lookup.via = "execute" => isAnswer(lookup.rows, lookup.key)

\* "SHOW USERS requires the MANAGE GRANTS privilege": users are read with all their
\* columns while the active role is the one _show_users takes it for.
UsersInFull ==
  planning /\ role = session_role /\ lookup # NoLookup => lookup.rows # Partial
=============================================================================
