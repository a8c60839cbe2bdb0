----------------------- MODULE ExecutionCache_proofs -----------------------
(***************************************************************************)
(* What a plan looks up is current and users are read in full, for every   *)
(* account, whatever changes it, and though sessions are reused.           *)
(***************************************************************************)
EXTENDS ExecutionCache, TLAPS

\* What Snowflake answers now is among the answers of the plan.
AnswersNow == planning => \A k \in Key : Views(account)[k] \subseteq answers[k]

\* fetch_session has been called.
SessionKnown == planning => session_role # NoRole

Inv == TypeOK /\ SessionKnown /\ AnswersNow /\ CacheCurrent /\ LookupsAreCurrent

LEMMA ViewType ==
  ASSUME NEW acc \in AccountStates, NEW r \in Role, NEW text \in Text
  PROVE  /\ View(acc, r, text) \in Answer
         /\ text # UsersText \/ r \in GrantManagers => View(acc, r, text) # Partial
  BY AnswersAssumption DEF View, AccountStates, Answer

\* A list that execute makes is the answer of the moment, a cached one that of
\* an earlier moment of the plan; the cache gains nothing else.
LEMMA ExecuteResult ==
  ASSUME TypeOK, AnswersNow, CacheCurrent, planning,
         NEW r \in Role, NEW text \in Text, NEW result \in execute(r, text)
  PROVE  /\ result.list.id \in Id
         /\ result.list.rows \in Answer
         /\ isAnswer(result.list.rows, <<r, text>>)
         /\ DOMAIN result.cache \subseteq Key
         /\ \A k \in DOMAIN result.cache :
              /\ result.cache[k] \in [id : Id, rows : Answer \ {Missing}]
              /\ isAnswer(result.cache[k].rows, k)
<1> DEFINE k0 == <<r, text>>
           answer == View(account, r, text)
<1>1. k0 \in Key /\ answer \in answers[k0] /\ answer \in Answer
  <2>1. k0 \in Key
    BY DEF Key
  <2>2. Views(account)[k0] = {answer}
    BY <2>1 DEF Views
  <2>3. answer \in Answer
    BY ViewType DEF TypeOK
  <2> QED
    BY <2>1, <2>2, <2>3 DEF AnswersNow
<1>2. Fresh \subseteq Id
  BY DEF Fresh
<1>3. CASE k0 \in DOMAIN cache
  <2>1. result = [list |-> cache[k0], cache |-> cache]
    BY <1>3 DEF execute
  <2> QED
    BY <1>3, <2>1 DEF TypeOK, CacheCurrent
<1>4. ASSUME NEW i \in Id, NEW rows \in Answer \ {Missing}, isAnswer(rows, k0),
             result.cache = Put(cache, k0, List(i, rows))
      PROVE  /\ DOMAIN result.cache \subseteq Key
             /\ \A k \in DOMAIN result.cache :
                  /\ result.cache[k] \in [id : Id, rows : Answer \ {Missing}]
                  /\ isAnswer(result.cache[k].rows, k)
  BY <1>1, <1>4 DEF Put, List, TypeOK, CacheCurrent
<1>5. CASE k0 \notin DOMAIN cache /\ answer # Missing
  <2>1. PICK i \in Fresh : result = [list  |-> List(i, answer),
                                    cache |-> Put(cache, k0, List(i, answer))]
    BY <1>5 DEF execute
  <2>2. isAnswer(answer, k0)
    BY <1>1 DEF isAnswer
  <2>3. /\ result.list.id = i
        /\ result.list.rows = answer
        /\ result.cache = Put(cache, k0, List(i, answer))
    BY <2>1 DEF List
  <2> QED
    BY <1>1, <1>2, <1>4, <1>5, <2>2, <2>3
<1>6. CASE k0 \notin DOMAIN cache /\ answer = Missing /\ text \in GrantsText
  <2>1. PICK p \in Fresh \X Fresh : result = [list  |-> List(p[1], Empty),
                                             cache |-> Put(cache, k0, List(p[2], Empty))]
    BY <1>6 DEF execute
  <2>2. isAnswer(Empty, k0)
    BY <1>1, <1>6 DEF isAnswer
  <2>3. /\ result.list.id = p[1] /\ p[1] \in Id /\ p[2] \in Id
        /\ result.list.rows = Empty
        /\ result.cache = Put(cache, k0, List(p[2], Empty))
    BY <1>2, <2>1 DEF List
  <2>4. Empty \in Answer \ {Missing}
    BY AnswersAssumption DEF Answer
  <2> QED
    BY <1>4, <2>2, <2>3, <2>4
<1>7. CASE k0 \notin DOMAIN cache /\ answer = Missing /\ text \notin GrantsText
  <2>1. PICK i \in Fresh : result = [list |-> List(i, Missing), cache |-> cache]
    BY <1>7 DEF execute
  <2>2. isAnswer(Missing, k0)
    BY <1>1, <1>7 DEF isAnswer
  <2>3. result.list.id = i /\ result.list.rows = Missing /\ result.cache = cache
    BY <2>1 DEF List
  <2> QED
    BY <1>1, <1>2, <1>7, <2>2, <2>3 DEF TypeOK, CacheCurrent
<1> QED
  BY <1>3, <1>5, <1>6, <1>7

\* A step that executes a statement and records the result keeps the invariant.
LEMMA ExecutedInv ==
  ASSUME Inv, planning, NEW r \in Role, NEW text \in Text,
         NEW result \in execute(r, text), Executed(r, text, result),
         role' \in Role, UNCHANGED <<account, session_role, available_roles, planning,
                                     index, answers, plans, changes>>
  PROVE  Inv'
<1> USE DEF Inv
<1>1. /\ result.list.rows \in Answer
      /\ isAnswer(result.list.rows, <<r, text>>)
      /\ DOMAIN result.cache \subseteq Key
      /\ \A k \in DOMAIN result.cache :
           /\ result.cache[k] \in [id : Id, rows : Answer \ {Missing}]
           /\ isAnswer(result.cache[k].rows, k)
  BY ExecuteResult
<1>2. TypeOK'
  BY <1>1 DEF TypeOK, Executed, Key
<1>3. AnswersNow'
  BY DEF AnswersNow, Views, View
<1>4. CacheCurrent'
  BY <1>1 DEF CacheCurrent, Executed, isAnswer
<1>5. LookupsAreCurrent'
  BY <1>1 DEF LookupsAreCurrent, Executed, isAnswer
<1> QED
  BY <1>2, <1>3, <1>4, <1>5 DEF SessionKnown

LEMMA InitInv == Init => Inv
<1> SUFFICES ASSUME Init PROVE Inv
  OBVIOUS
<1> USE DEF Init
<1>1. DOMAIN cache = {} /\ DOMAIN index = {}
  BY DEF Nothing
<1>2. TypeOK
  BY <1>1, RolesAssumption DEF TypeOK
<1>3. AnswersNow /\ SessionKnown
  BY DEF AnswersNow, SessionKnown
<1>4. CacheCurrent /\ LookupsAreCurrent
  BY <1>1 DEF CacheCurrent, LookupsAreCurrent
<1> QED
  BY <1>2, <1>3, <1>4 DEF Inv

LEMMA StepInv == Inv /\ [Next]_vars => Inv'
<1> SUFFICES ASSUME Inv, [Next]_vars PROVE Inv'
  OBVIOUS
<1> USE DEF Inv
<1>1. CASE StartPlan
  <2> USE <1>1 DEF StartPlan
  <2>1. Views(account) \in [Key -> SUBSET Answer]
    <3>1. \A k \in Key : View(account, k[1], k[2]) \in Answer
      BY ViewType DEF Key, TypeOK
    <3> QED
      BY <3>1 DEF Views
  <2>2. role' \in Role /\ session_role' \in Role \cup {NoRole} /\ available_roles' \subseteq Role
    BY RolesAssumption DEF TypeOK, NewSession, SameSession, session
  <2>3. TypeOK'
    BY <2>1, <2>2 DEF TypeOK, Nothing
  <2>4. AnswersNow'
    BY DEF AnswersNow, Views, View
  <2>5. CacheCurrent'
    BY DEF CacheCurrent, Nothing
  <2>6. LookupsAreCurrent'
    BY DEF LookupsAreCurrent
  <2>7. SessionKnown'
    BY RolesAssumption DEF SessionKnown, NewSession, SameSession, session
  <2> QED
    BY <2>3, <2>4, <2>5, <2>6, <2>7
<1>2. ASSUME NEW text \in GrantsText \cup OtherText, Fetch(text)
      PROVE  Inv'
  <2>1. PICK result \in execute(role, text) : Executed(role, text, result)
    BY <1>2 DEF Fetch
  <2>2. text \in Text /\ role \in Role /\ role' \in Role /\ planning
    BY <1>2 DEF Text, TypeOK, Fetch, session
  <2> QED
    BY <1>2, <2>1, <2>2, ExecutedInv DEF Fetch, session
<1>3. ASSUME NEW text \in GrantsText, FetchGrantToRole(text)
      PROVE  Inv'
  <2>1. text \in Text /\ role \in Role /\ planning
    BY <1>3 DEF Text, TypeOK, FetchGrantToRole
  <2>2. PICK result \in execute(role, text) :
          LET id == result.list.id
              indexed == IF id \in DOMAIN index THEN index
                         ELSE Put(index, id, result.list.rows)
          IN  /\ cache' = result.cache
              /\ index' = indexed
              /\ lookup' = [via |-> "index", key |-> <<role, text>>, rows |-> indexed[id]]
    BY <1>3 DEF FetchGrantToRole
  <2>3. /\ result.list.id \in Id
        /\ result.list.rows \in Answer
        /\ DOMAIN result.cache \subseteq Key
        /\ \A k \in DOMAIN result.cache :
             /\ result.cache[k] \in [id : Id, rows : Answer \ {Missing}]
             /\ isAnswer(result.cache[k].rows, k)
    BY <2>1, ExecuteResult
  <2>4. UNCHANGED <<account, role, session_role, available_roles, planning, answers, plans,
                    changes>>
    BY <1>3 DEF FetchGrantToRole, session
  <2>5. /\ DOMAIN index' \subseteq Id
        /\ \A i \in DOMAIN index' : index'[i] \in Answer
        /\ result.list.id \in DOMAIN index'
    BY <2>2, <2>3 DEF TypeOK, Put
  <2>6. lookup' \in [via : {"execute", "index"}, key : Key, rows : Answer]
    BY <2>1, <2>2, <2>5 DEF Key
  <2>7. TypeOK'
    BY <2>2, <2>3, <2>4, <2>5, <2>6 DEF TypeOK
  <2>8. AnswersNow'
    BY <2>4 DEF AnswersNow, Views, View
  <2>9. CacheCurrent'
    BY <2>2, <2>3, <2>4 DEF CacheCurrent, isAnswer
  <2>10. LookupsAreCurrent'
    BY <2>2 DEF LookupsAreCurrent
  <2> QED
    BY <2>4, <2>7, <2>8, <2>9, <2>10 DEF SessionKnown
<1>4. CASE ShowUsers
  <2>1. PICK r \in Role : \E result \in execute(r, UsersText) : Executed(r, UsersText, result)
    BY <1>4, RolesAssumption DEF ShowUsers, Eligible, TypeOK
  <2>2. PICK result \in execute(r, UsersText) : Executed(r, UsersText, result)
    BY <2>1
  <2>3. UsersText \in Text /\ planning
    BY <1>4 DEF Text, ShowUsers
  <2>4. role' \in Role
    BY <1>4 DEF ShowUsers, TypeOK, SessionKnown
  <2> QED
    BY <1>4, <2>2, <2>3, <2>4, ExecutedInv DEF ShowUsers
<1>5. CASE RefuseUsers \/ EndPlan
  BY <1>5 DEF RefuseUsers, EndPlan, session, TypeOK, SessionKnown, AnswersNow,
              CacheCurrent, LookupsAreCurrent, isAnswer
<1>6. ASSUME NEW r \in Role, UseRole(r)
      PROVE  Inv'
  BY <1>6 DEF UseRole, TypeOK, SessionKnown, AnswersNow, CacheCurrent, LookupsAreCurrent,
              isAnswer
<1>7. CASE AccountChanges
  <2> USE <1>7 DEF AccountChanges, session
  <2>1. Views(account') \in [Key -> SUBSET Answer]
    <3>1. \A k \in Key : View(account', k[1], k[2]) \in Answer
      BY ViewType DEF Key
    <3> QED
      BY <3>1 DEF Views
  <2>2. \A k \in Key : answers'[k] = answers[k] \cup Views(account')[k]
    OBVIOUS
  <2>3. TypeOK'
    BY <2>1 DEF TypeOK
  <2>4. AnswersNow'
    BY <2>2 DEF AnswersNow, Views, View
  <2>5. CacheCurrent'
    BY <2>2 DEF CacheCurrent, isAnswer, TypeOK
  <2>6. LookupsAreCurrent'
    BY <2>2 DEF LookupsAreCurrent, isAnswer, TypeOK
  <2> QED
    BY <2>3, <2>4, <2>5, <2>6 DEF SessionKnown
<1>8. CASE UNCHANGED vars
  BY <1>8 DEF vars, TypeOK, SessionKnown, AnswersNow, CacheCurrent, LookupsAreCurrent,
              isAnswer, Views, View
<1> QED
  BY <1>1, <1>2, <1>3, <1>4, <1>5, <1>6, <1>7, <1>8 DEF Next

\* The cache of client.execute has only lists of its types, and no error.
THEOREM CacheTypeOK == Spec => []TypeOK
<1>1. Inv => TypeOK
  BY DEF Inv
<1> QED
  BY <1>1, InitInv, StepInv, PTL DEF Spec

\* What a fetch finds through client.execute is an answer Snowflake gave, or would
\* have given, to that role since reset_cache began the plan.
THEOREM CacheCorrect == Spec => []LookupsAreCurrent
<1>1. Inv => LookupsAreCurrent
  BY DEF Inv
<1> QED
  BY <1>1, InitInv, StepInv, PTL DEF Spec

-----------------------------------------------------------------------------
\* Only a role without MANAGE GRANTS has cached users without all columns.
CacheInFull ==
  /\ \A k \in DOMAIN cache :
       cache[k].rows = Partial => k[1] \notin GrantManagers /\ k[2] = UsersText
  /\ \A i \in DOMAIN index : index[i] # Partial

UsersInv == Inv /\ CacheInFull /\ UsersInFull

LEMMA ExecuteInFull ==
  ASSUME Inv, CacheInFull, planning, NEW r \in Role, NEW text \in Text,
         NEW result \in execute(r, text)
  PROVE  /\ result.list.rows = Partial => r \notin GrantManagers /\ text = UsersText
         /\ \A k \in DOMAIN result.cache :
              result.cache[k].rows = Partial => k[1] \notin GrantManagers /\ k[2] = UsersText
<1> DEFINE k0 == <<r, text>>
           answer == View(account, r, text)
<1>1. answer = Partial => r \notin GrantManagers /\ text = UsersText
  BY ViewType DEF Inv, TypeOK
<1>2. Empty # Partial /\ Missing # Partial
  BY AnswersAssumption
<1>3. CASE k0 \in DOMAIN cache
  <2>1. result.list = cache[k0] /\ result.cache = cache
    BY <1>3 DEF execute
  <2> QED
    BY <1>3, <2>1 DEF CacheInFull
<1>4. CASE k0 \notin DOMAIN cache
  <2>1. \/ result.list.rows # Partial /\ result.cache = cache
        \/ \E i \in Id, rows \in {answer, Empty} :
             result.list.rows = rows /\ result.cache = Put(cache, k0, List(i, rows))
    <3>1. Fresh \subseteq Id
      BY DEF Fresh
    <3>2. CASE answer # Missing
      <4>1. PICK i \in Fresh : result = [list  |-> List(i, answer),
                                        cache |-> Put(cache, k0, List(i, answer))]
        BY <1>4, <3>2 DEF execute
      <4>2. result.list.rows = answer /\ result.cache = Put(cache, k0, List(i, answer))
        BY <4>1 DEF List
      <4> QED
        BY <3>1, <4>2
    <3>3. CASE answer = Missing /\ text \in GrantsText
      <4>1. PICK p \in Fresh \X Fresh : result = [list  |-> List(p[1], Empty),
                                                 cache |-> Put(cache, k0, List(p[2], Empty))]
        BY <1>4, <3>3 DEF execute
      <4>2. result.list.rows = Empty /\ result.cache = Put(cache, k0, List(p[2], Empty))
        BY <4>1 DEF List
      <4> QED
        BY <3>1, <4>2
    <3>4. CASE answer = Missing /\ text \notin GrantsText
      <4>1. PICK i \in Fresh : result = [list |-> List(i, Missing), cache |-> cache]
        BY <1>4, <3>4 DEF execute
      <4> QED
        BY <1>2, <4>1 DEF List
    <3> QED
      BY <3>2, <3>3, <3>4
  <2>2. ASSUME NEW i \in Id, NEW rows \in {answer, Empty},
               result.cache = Put(cache, k0, List(i, rows)), NEW k \in DOMAIN result.cache,
               result.cache[k].rows = Partial
        PROVE  k[1] \notin GrantManagers /\ k[2] = UsersText
    BY <1>1, <1>2, <2>2 DEF Put, List, CacheInFull
  <2> QED
    BY <1>1, <1>2, <2>1, <2>2 DEF CacheInFull
<1> QED
  BY <1>3, <1>4

LEMMA UsersStep == UsersInv /\ [Next]_vars => UsersInv'
<1> SUFFICES ASSUME UsersInv, [Next]_vars PROVE UsersInv'
  OBVIOUS
<1> USE DEF UsersInv
<1>1. Inv'
  BY StepInv
<1>2. CASE StartPlan
  BY <1>1, <1>2 DEF StartPlan, CacheInFull, UsersInFull, Nothing
<1>3. ASSUME NEW text \in GrantsText \cup OtherText, Fetch(text)
      PROVE  UsersInv'
  <2>1. PICK result \in execute(role, text) : Executed(role, text, result)
    BY <1>3 DEF Fetch
  <2>2. /\ text \in Text /\ text # UsersText /\ role \in Role /\ planning
        /\ UNCHANGED index
    BY <1>3, TextsAssumption DEF Text, Inv, TypeOK, Fetch
  <2>3. CacheInFull' /\ lookup'.rows # Partial
    BY <2>1, <2>2, ExecuteInFull DEF Executed, CacheInFull
  <2> QED
    BY <1>1, <2>3 DEF UsersInFull
<1>4. ASSUME NEW text \in GrantsText, FetchGrantToRole(text)
      PROVE  UsersInv'
  <2>1. PICK result \in execute(role, text) :
          LET id == result.list.id
              indexed == IF id \in DOMAIN index THEN index
                         ELSE Put(index, id, result.list.rows)
          IN  /\ cache' = result.cache
              /\ index' = indexed
              /\ lookup' = [via |-> "index", key |-> <<role, text>>, rows |-> indexed[id]]
    BY <1>4 DEF FetchGrantToRole
  <2>2. text \in Text /\ text # UsersText /\ role \in Role /\ planning
    BY <1>4, TextsAssumption DEF Text, Inv, TypeOK, FetchGrantToRole
  <2>3. /\ result.list.rows # Partial
        /\ \A k \in DOMAIN cache' :
             cache'[k].rows = Partial => k[1] \notin GrantManagers /\ k[2] = UsersText
    BY <2>1, <2>2, ExecuteInFull
  <2>4. /\ result.list.id \in DOMAIN index'
        /\ \A i \in DOMAIN index' : index'[i] # Partial
    BY <2>1, <2>3 DEF Put, CacheInFull
  <2>5. lookup'.rows # Partial
    BY <2>1, <2>4
  <2> QED
    BY <1>1, <2>3, <2>4, <2>5 DEF CacheInFull, UsersInFull
<1>5. CASE ShowUsers
  <2>1. planning /\ UNCHANGED <<session_role, index>>
    BY <1>5 DEF ShowUsers
  <2>2. PICK r \in Role : /\ \E result \in execute(r, UsersText) : Executed(r, UsersText, result)
                          /\ r \in GrantManagers \/ role' # session_role'
    <3>1. CASE session_role \in GrantManagers
      BY <1>5, <3>1 DEF ShowUsers, Inv, TypeOK
    <3>2. CASE session_role \notin GrantManagers
      BY <1>5, <3>2, RolesAssumption DEF ShowUsers, Eligible
    <3> QED
      BY <3>1, <3>2
  <2>3. PICK result \in execute(r, UsersText) : Executed(r, UsersText, result)
    BY <2>2
  <2>4. UsersText \in Text
    BY DEF Text
  <2>5. CacheInFull' /\ (lookup'.rows = Partial => r \notin GrantManagers)
    BY <2>1, <2>3, <2>4, ExecuteInFull DEF Executed, CacheInFull
  <2> QED
    BY <1>1, <2>2, <2>5 DEF UsersInFull
<1>6. CASE RefuseUsers \/ EndPlan
  BY <1>1, <1>6 DEF RefuseUsers, EndPlan, CacheInFull, UsersInFull
<1>7. ASSUME NEW r \in Role, UseRole(r)
      PROVE  UsersInv'
  BY <1>1, <1>7 DEF UseRole, CacheInFull, UsersInFull
<1>8. CASE AccountChanges
  BY <1>1, <1>8 DEF AccountChanges, session, CacheInFull, UsersInFull
<1>9. CASE UNCHANGED vars
  BY <1>1, <1>9 DEF vars, CacheInFull, UsersInFull
<1> QED
  BY <1>2, <1>3, <1>4, <1>5, <1>6, <1>7, <1>8, <1>9 DEF Next

\* Whoever has MANAGE GRANTS, and whatever else is cached or indexed, users are read
\* with every column while the active role is the one fetch_session memoized.
THEOREM UsersCorrect == Spec => []UsersInFull
<1>1. Init => UsersInv
  BY InitInv DEF Init, UsersInv, CacheInFull, UsersInFull, Nothing
<1>2. UsersInv => UsersInFull
  BY DEF UsersInv
<1> QED
  BY <1>1, <1>2, UsersStep, PTL DEF Spec
=============================================================================
