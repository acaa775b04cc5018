----------------------------- MODULE RedisProofs -----------------------------
(***************************************************************************)
(* What the gateway keeps in Redis: the response cache serves recent       *)
(* answers, for any number of requests and routes, any TTLs and any way    *)
(* routes share keys; the rate limiter counts right, for any connections,  *)
(* counters, routes and limits.                                            *)
(***************************************************************************)
EXTENDS ResponseCache, RateLimiter, TLAPS

\* The steps, one by one.
LEMMA CacheCases ==
  ASSUME [CacheNext]_cacheVars
  PROVE  \/ \E r \in Gets, p \in Places : Hit(r, p)
         \/ \E r \in Gets, p \in Places : Miss(r, p)
         \/ \E r \in Gets : Answer(r)
         \/ \E r \in Gets : Copied(r)
         \/ \E r \in Gets : Store(r)
         \/ \E r \in Gets : Done(r)
         \/ \E r \in Gets : BreakOff(r)
         \/ \E p \in Places : Change(p)
         \/ Crash
         \/ CacheTick
         \/ UNCHANGED cacheVars
  BY DEF CacheNext, GoOn

-----------------------------------------------------------------------------
\* Types.

\* A request in some stage has the fields of that stage.
LEMMA Shapes ==
  ASSUME CacheTypeOK, NEW r \in Gets
  PROVE  /\ At(r, "forward") => req[r] \in Forwarded
         /\ At(r, "copy") => req[r] \in Answered
         /\ At(r, "store") => req[r] \in Storing
         /\ At(r, "served") => req[r] \in Served
  BY DEF CacheTypeOK, At, Idle, Forwarded, Answered, Storing, Served

\* A step of the inner handlers or of Redis on behalf of one request.
LEMMA ReqType ==
  ASSUME CacheTypeOK, NEW r \in Gets,
         NEW q \in {Idle} \cup Forwarded \cup Answered \cup Storing \cup Served,
         req' = [req EXCEPT ![r] = q]
  PROVE  req' \in [Gets -> {Idle} \cup Forwarded \cup Answered \cup Storing \cup Served]
  BY DEF CacheTypeOK

\* Time passes for an answer, or stands still for one about to be stored.
LEMMA AgeStep ==
  ASSUME CacheTick
  PROVE  /\ age' = [a \in Contents |-> age'[a]]
         /\ \A a \in Contents :
              age'[a] = IF (\E r \in Gets : At(r, "store") /\ req[r].answer = a)
                           \/ age[a] >= TTL[a.from]
                        THEN age[a] ELSE age[a] + 1
  BY DEF CacheTick

\* Contents, entries and requests keep their types, an entry is there exactly while it
\* has time left, and only contents of routes with a cache are about to be stored.
THEOREM TypeCorrect == CacheSpec => []CacheTypeOK
  <1>1. CacheInit => CacheTypeOK
    BY CacheAssumption DEF CacheInit, CacheTypeOK, Contents
  <1>2. CacheTypeOK /\ [CacheNext]_cacheVars => CacheTypeOK'
    <2> SUFFICES ASSUME CacheTypeOK, [CacheNext]_cacheVars PROVE CacheTypeOK'
      OBVIOUS
    <2>1. CASE \E r \in Gets, p \in Places : Hit(r, p)
      <3>1. PICK r \in Gets, p \in Places : Hit(r, p)
        BY <2>1
      <3>2. KeyOf[p] \in Keys
        BY CacheAssumption
      <3>3. [pc |-> "served", answer |-> entry[KeyOf[p]]] \in Served
        BY <3>1, <3>2 DEF Hit, CacheTypeOK, Served
      <3>4. QED BY <3>1, <3>3, ReqType DEF Hit, CacheTypeOK
    <2>2. CASE \E r \in Gets, p \in Places : Miss(r, p)
      <3>1. PICK r \in Gets, p \in Places : Miss(r, p)
        BY <2>2
      <3>2. [pc |-> "forward", place |-> p] \in Forwarded
        BY DEF Forwarded
      <3>3. QED BY <3>1, <3>2, ReqType DEF Miss, CacheTypeOK
    <2>3. CASE \E r \in Gets : Answer(r)
      <3>1. PICK r \in Gets : Answer(r)
        BY <2>3
      <3>2. PICK v \in {content[req[r].place], Refused} :
              req' = [req EXCEPT ![r] = [pc |-> "copy", place |-> req[r].place,
                                         answer |-> [from |-> req[r].place, ver |-> v]]]
        BY <3>1 DEF Answer
      <3>3. req[r] \in Forwarded
        BY <3>1, Shapes DEF Answer
      <3>4. [pc |-> "copy", place |-> req[r].place,
             answer |-> [from |-> req[r].place, ver |-> v]] \in Answered
        BY <3>3 DEF Forwarded, Answered, Answers, CacheTypeOK
      <3>5. QED BY <3>1, <3>2, <3>4, ReqType DEF Answer, CacheTypeOK
    <2>4. CASE \E r \in Gets : Copied(r)
      <3>1. PICK r \in Gets : Copied(r)
        BY <2>4
      <3>2. req[r] \in Answered
        BY <3>1, Shapes DEF Copied
      <3>3. age' \in [Contents -> Nat]
        BY <3>1, CacheAssumption DEF Copied, CacheTypeOK
      <3>4. CASE Cached(req[r].place) /\ Successful(req[r].answer)
        <4>1. [req[r] EXCEPT !.pc = "store"] \in Storing
          BY <3>2, <3>4 DEF Answered, Storing, Successful
        <4>2. req' = [req EXCEPT ![r] = [req[r] EXCEPT !.pc = "store"]]
          BY <3>1, <3>4 DEF Copied
        <4>3. QED BY <3>1, <3>3, <4>1, <4>2, ReqType DEF Copied, CacheTypeOK
      <3>5. CASE ~(Cached(req[r].place) /\ Successful(req[r].answer))
        <4>1. [pc |-> "served", answer |-> req[r].answer] \in Served
          BY <3>2 DEF Answered, Served
        <4>2. req' = [req EXCEPT ![r] = [pc |-> "served", answer |-> req[r].answer]]
          BY <3>1, <3>5 DEF Copied
        <4>3. QED BY <3>1, <3>3, <4>1, <4>2, ReqType DEF Copied, CacheTypeOK
      <3>6. QED BY <3>4, <3>5
    <2>5. CASE \E r \in Gets : Store(r)
      <3>1. PICK r \in Gets : Store(r)
        BY <2>5
      <3>2. req[r] \in Storing
        BY <3>1, Shapes DEF Store
      <3>3. [pc |-> "served", answer |-> req[r].answer] \in Served
        BY <3>2 DEF Storing, Served, Contents, Answers
      <3>4. req' = [req EXCEPT ![r] = [pc |-> "served", answer |-> req[r].answer]]
        BY <3>1 DEF Store
      <3>5. req' \in [Gets -> {Idle} \cup Forwarded \cup Answered \cup Storing \cup Served]
        BY <3>3, <3>4, ReqType
      <3>6. /\ KeyOf[req[r].place] \in Keys
            /\ TTL[req[r].place] \in Nat \ {0}
            /\ req[r].answer \in Answers \ {None}
        BY <3>2, CacheAssumption DEF Storing, Cached, Contents, Answers, None
      <3>7. CASE UNCHANGED <<entry, left>>
        BY <3>1, <3>5, <3>7 DEF Store, CacheTypeOK
      <3>8. CASE /\ entry' = [entry EXCEPT ![KeyOf[req[r].place]] = req[r].answer]
                 /\ left' = [left EXCEPT ![KeyOf[req[r].place]] = TTL[req[r].place]]
        <4>1. \A k \in Keys : entry'[k] = None <=> left'[k] = 0
          BY <3>6, <3>8 DEF CacheTypeOK
        <4>2. left' \in [Keys -> Nat] /\ entry' \in [Keys -> Answers \cup {None}]
          BY <3>6, <3>8, CacheAssumption DEF CacheTypeOK
        <4>3. QED BY <3>1, <3>5, <4>1, <4>2 DEF Store, CacheTypeOK
      <3>9. QED BY <3>1, <3>7, <3>8 DEF Store
    <2>6. CASE \E r \in Gets : Done(r) \/ BreakOff(r)
      BY <2>6, ReqType DEF Done, BreakOff, CacheTypeOK
    <2>7. CASE \E p \in Places : Change(p)
      BY <2>7 DEF Change, CacheTypeOK
    <2>8. CASE Crash
      BY <2>8 DEF Crash, CacheTypeOK
    <2>9. CASE CacheTick
      <3>1. left' \in [Keys -> Nat]
        BY <2>9, CacheAssumption DEF CacheTick, CacheTypeOK
      <3>2. age' \in [Contents -> Nat]
        BY <2>9, AgeStep, CacheAssumption DEF CacheTypeOK
      <3>3. \A k \in Keys : entry'[k] = None <=> left'[k] = 0
        BY <2>9, CacheAssumption DEF CacheTick, CacheTypeOK
      <3>4. QED BY <2>9, <3>1, <3>2, <3>3 DEF CacheTick, CacheTypeOK
    <2>10. CASE UNCHANGED cacheVars
      BY <2>10 DEF cacheVars, CacheTypeOK
    <2>11. QED BY <2>1, <2>2, <2>3, <2>4, <2>5, <2>6, <2>7, <2>8, <2>9, <2>10, CacheCases
  <1>3. QED BY <1>1, <1>2, PTL DEF CacheSpec
-----------------------------------------------------------------------------
\* Recent answers.

\* A request answers for the place it was sent to, and what it is about to
\* store has just been completed.
StoringNow ==
  \A r \in Gets :
    At(r, "store") => age[req[r].answer] = 0 /\ req[r].answer.from = req[r].place
CopyingOwn ==
  \A r \in Gets : At(r, "copy") => req[r].answer.from = req[r].place

\* The age of an entry and the rest of its life add up to at most its TTL.
EntriesRecent ==
  \A k \in Keys :
    entry[k] # None => /\ entry[k] \in Contents
                       /\ age[entry[k]] + left[k] <= TTL[entry[k].from]

RecentInv == StoringNow /\ CopyingOwn /\ EntriesRecent

\* Ages and lives are numbers.
LEMMA Ages ==
  ASSUME CacheTypeOK, NEW a \in Contents
  PROVE  age[a] \in Nat /\ TTL[a.from] \in Nat
  <1>1. age[a] \in Nat
    BY CacheAssumption DEF CacheTypeOK
  <1>2. a.from \in Places
    BY DEF Contents
  <1>3. QED BY <1>1, <1>2, CacheAssumption

LEMMA RecentStep ==
  ASSUME CacheTypeOK, RecentInv, [CacheNext]_cacheVars
  PROVE  RecentInv'
  <1>1. CASE \E r \in Gets, p \in Places : Hit(r, p) \/ Miss(r, p)
    BY <1>1 DEF Hit, Miss, RecentInv, StoringNow, CopyingOwn, EntriesRecent, At, CacheTypeOK
  <1>2. CASE \E r \in Gets : Answer(r)
    BY <1>2 DEF Answer, RecentInv, StoringNow, CopyingOwn, EntriesRecent, At, CacheTypeOK
  <1>3. CASE \E r \in Gets : Copied(r)
    <2>1. PICK r \in Gets : Copied(r)
      BY <1>3
    <2>2. req[r] \in Answered
      BY <2>1, Shapes DEF Copied
    <2>3. \A s \in Gets \ {r} : req'[s] = req[s]
      BY <2>1 DEF Copied, CacheTypeOK
    <2>4. \A a \in Contents : age'[a] = age[a] \/ age'[a] = 0
      BY <2>1 DEF Copied, CacheTypeOK
    <2>5. CopyingOwn'
      <3>1. ~At(r, "copy")'
        BY <2>1, <2>2 DEF Copied, At, CacheTypeOK, Answered
      <3>2. QED BY <2>3, <3>1 DEF RecentInv, CopyingOwn, At
    <2>6. StoringNow'
      <3>1. \A s \in Gets \ {r} : At(s, "store") => req[s].answer \in Contents
        BY Shapes DEF Storing
      <3>2. \A s \in Gets \ {r} : At(s, "store")' =>
              age'[req'[s].answer] = 0 /\ req'[s].answer.from = req'[s].place
        BY <2>3, <2>4, <3>1 DEF RecentInv, StoringNow, At
      <3>3. At(r, "store")' => /\ req[r].answer \in Contents
                               /\ req'[r].answer = req[r].answer
                               /\ req'[r].place = req[r].place
        BY <2>1, <2>2 DEF Copied, At, CacheTypeOK, Answered, Successful
      <3>4. At(r, "store")' => age'[req'[r].answer] = 0
        BY <2>1, <3>3 DEF Copied, CacheTypeOK
      <3>5. At(r, "store")' => req'[r].answer.from = req'[r].place
        BY <2>1, <3>3 DEF Copied, RecentInv, CopyingOwn
      <3>6. QED BY <3>2, <3>4, <3>5 DEF StoringNow
    <2>7. EntriesRecent'
      <3>1. \A k \in Keys : entry'[k] = entry[k] /\ left'[k] = left[k] /\ left[k] \in Nat
        BY <2>1, CacheAssumption DEF Copied, CacheTypeOK
      <3>2. \A a \in Contents : age[a] \in Nat /\ TTL[a.from] \in Nat
        BY Ages
      <3>3. QED BY <2>4, <3>1, <3>2 DEF RecentInv, EntriesRecent
    <2>8. QED BY <2>5, <2>6, <2>7 DEF RecentInv
  <1>4. CASE \E r \in Gets : Store(r)
    <2>1. PICK r \in Gets : Store(r)
      BY <1>4
    <2>2. req[r] \in Storing /\ At(r, "store")
      BY <2>1, Shapes DEF Store
    <2>3. StoringNow' /\ CopyingOwn'
      BY <2>1 DEF Store, RecentInv, StoringNow, CopyingOwn, At, CacheTypeOK
    <2>4. EntriesRecent'
      <3>1. /\ req[r].answer \in Contents /\ req[r].place \in Places
            /\ age[req[r].answer] = 0 /\ req[r].answer.from = req[r].place
        BY <2>2 DEF RecentInv, StoringNow, Storing
      <3>2. TTL[req[r].place] \in Nat
        BY <3>1, CacheAssumption
      <3>3. \A k \in Keys :
              \/ entry'[k] = entry[k] /\ left'[k] = left[k]
              \/ entry'[k] = req[r].answer /\ left'[k] = TTL[req[r].place]
        BY <2>1 DEF Store, CacheTypeOK
      <3>4. age' = age
        BY <2>1 DEF Store
      <3>5. QED BY <3>1, <3>2, <3>3, <3>4 DEF RecentInv, EntriesRecent
    <2>5. QED BY <2>3, <2>4 DEF RecentInv
  <1>5. CASE \E r \in Gets : Done(r) \/ BreakOff(r)
    BY <1>5 DEF Done, BreakOff, RecentInv, StoringNow, CopyingOwn, EntriesRecent, At, CacheTypeOK, Idle
  <1>6. CASE \E p \in Places : Change(p)
    BY <1>6 DEF Change, RecentInv, StoringNow, CopyingOwn, EntriesRecent, At
  <1>7. CASE Crash
    BY <1>7 DEF Crash, RecentInv, StoringNow, CopyingOwn, EntriesRecent, At, Idle
  <1>8. CASE CacheTick
    <2>1. req' = req
      BY <1>8 DEF CacheTick
    <2>2. StoringNow' /\ CopyingOwn'
      <3>1. \A r \in Gets : At(r, "store") => req[r].answer \in Contents
        BY Shapes DEF Storing
      <3>2. QED BY <1>8, <2>1, <3>1, AgeStep DEF RecentInv, StoringNow, CopyingOwn, At
    <2>3. EntriesRecent'
      <3> SUFFICES ASSUME NEW k \in Keys, entry'[k] # None
                   PROVE  /\ entry'[k] \in Contents
                          /\ age'[entry'[k]] + left'[k] <= TTL[entry'[k].from]
        BY DEF EntriesRecent
      <3>1. entry'[k] = entry[k] /\ left[k] > 1 /\ left'[k] = left[k] - 1 /\ left[k] \in Nat
        BY <1>8, CacheAssumption DEF CacheTick, CacheTypeOK
      <3>2. entry[k] \in Contents /\ age[entry[k]] + left[k] <= TTL[entry[k].from]
        BY <3>1 DEF RecentInv, EntriesRecent
      <3>3. age[entry[k]] \in Nat /\ TTL[entry[k].from] \in Nat
        BY <3>2, Ages
      <3>4. age'[entry[k]] \in {age[entry[k]], age[entry[k]] + 1}
        BY <1>8, <3>2, AgeStep
      <3>5. QED BY <3>1, <3>2, <3>3, <3>4
    <2>4. QED BY <2>2, <2>3 DEF RecentInv
  <1>9. CASE UNCHANGED cacheVars
    BY <1>9 DEF cacheVars, RecentInv, StoringNow, CopyingOwn, EntriesRecent, At
  <1>10. QED BY <1>1, <1>2, <1>3, <1>4, <1>5, <1>6, <1>7, <1>8, <1>9, CacheCases

LEMMA RecentInvariant == CacheSpec => [](CacheTypeOK /\ RecentInv)
  <1>1. CacheInit => RecentInv
    BY DEF CacheInit, RecentInv, StoringNow, CopyingOwn, EntriesRecent, At, Idle
  <1>2. CacheTypeOK /\ RecentInv /\ [CacheNext]_cacheVars => RecentInv'
    BY RecentStep
  <1>3. QED BY <1>1, <1>2, TypeCorrect, PTL DEF CacheSpec

\* Only a hit takes a request from idle to served.
LEMMA ServedByHit ==
  ASSUME CacheTypeOK, [CacheNext]_cacheVars, NEW r \in Gets, At(r, "idle"), At(r, "served")'
  PROVE  \E p \in Places : Hit(r, p)
  BY CacheCases DEF Hit, Miss, Answer, Copied, Store, Done, BreakOff, Change, Crash, CacheTick,
     cacheVars, At, Idle, CacheTypeOK

\* What a request gets from the cache was completed by the inner handlers less
\* than the TTL of its route ago, however requests overlap and fail.
THEOREM CacheIsRecent == CacheSpec => HitsAreRecent
  <1>1. ASSUME CacheTypeOK, RecentInv, [CacheNext]_cacheVars, NEW r \in Gets,
               At(r, "idle"), At(r, "served")'
        PROVE  LET a == req'[r].answer IN a \in Contents /\ age[a] < TTL[a.from]
    <2>1. PICK p \in Places : Hit(r, p)
      BY <1>1, ServedByHit
    <2>2. KeyOf[p] \in Keys
      BY CacheAssumption
    <2>3. req'[r].answer = entry[KeyOf[p]] /\ entry[KeyOf[p]] # None
      BY <1>1, <2>1 DEF Hit, CacheTypeOK
    <2>4. left[KeyOf[p]] \in Nat /\ left[KeyOf[p]] # 0
      BY <1>1, <2>2, <2>3, CacheAssumption DEF CacheTypeOK
    <2>5. /\ entry[KeyOf[p]] \in Contents
          /\ age[entry[KeyOf[p]]] + left[KeyOf[p]] <= TTL[entry[KeyOf[p]].from]
      BY <1>1, <2>2, <2>3 DEF RecentInv, EntriesRecent
    <2>6. age[entry[KeyOf[p]]] \in Nat /\ TTL[entry[KeyOf[p]].from] \in Nat
      BY <1>1, <2>5, Ages
    <2>7. QED BY <2>3, <2>4, <2>5, <2>6
  <1>2. CacheTypeOK /\ RecentInv /\ [CacheNext]_cacheVars =>
          [\A r \in Gets :
             At(r, "idle") /\ At(r, "served")' =>
               LET a == req'[r].answer IN a \in Contents /\ age[a] < TTL[a.from]]_cacheVars
    BY <1>1
  <1>3. QED BY <1>2, RecentInvariant, PTL DEF CacheSpec, HitsAreRecent

-----------------------------------------------------------------------------
\* Outdated answers.

LEMMA OutdatedStep ==
  ASSUME CacheTypeOK, [CacheNext]_cacheVars, content' = content
  PROVE  /\ \A r \in Gets : OldAnswer(r)' => OldAnswer(r)
         /\ \A k \in Keys : Outdated(k)' =>
              \/ Outdated(k) /\ left'[k] <= left[k]
              \/ \E r \in Gets : OldAnswer(r) /\ ~OldAnswer(r)'
  <1>0. \A k \in Keys : left[k] \in Nat /\ left[k] <= left[k]
    BY CacheAssumption DEF CacheTypeOK
  <1>1. CASE \E r \in Gets, p \in Places : Hit(r, p) \/ Miss(r, p)
    BY <1>0, <1>1 DEF Hit, Miss, OldAnswer, Holding, At, Outdated, CacheTypeOK
  <1>2. CASE \E r \in Gets : Answer(r)
    <2>1. PICK r \in Gets : Answer(r)
      BY <1>2
    <2>2. PICK v \in {content[req[r].place], Refused} :
            req' = [req EXCEPT ![r] = [pc |-> "copy", place |-> req[r].place,
                                       answer |-> [from |-> req[r].place, ver |-> v]]]
      BY <2>1 DEF Answer
    <2>3. ~OldAnswer(r)'
      <3>1. req'[r].answer = [from |-> req[r].place, ver |-> v]
        BY <2>2 DEF CacheTypeOK
      <3>2. CASE v = content[req[r].place]
        BY <3>1, <3>2 DEF OldAnswer
      <3>3. CASE v = Refused
        BY <3>1, <3>3, CacheAssumption DEF OldAnswer, Contents
      <3>4. QED BY <3>2, <3>3
    <2>4. \A s \in Gets \ {r} : req'[s] = req[s]
      BY <2>2 DEF CacheTypeOK
    <2>5. entry' = entry /\ left' = left
      BY <2>1 DEF Answer
    <2>6. QED BY <1>0, <2>3, <2>4, <2>5 DEF OldAnswer, Holding, At, Outdated
  <1>3. CASE \E r \in Gets : Copied(r)
    <2>1. PICK r \in Gets : Copied(r)
      BY <1>3
    <2>2. req[r] \in Answered /\ At(r, "copy")
      BY <2>1, Shapes DEF Copied
    <2>3. \A s \in Gets \ {r} : req'[s] = req[s]
      BY <2>1 DEF Copied, CacheTypeOK
    <2>4. req'[r].answer = req[r].answer
      BY <2>1, <2>2 DEF Copied, CacheTypeOK, Answered
    <2>5. entry' = entry /\ left' = left
      BY <2>1 DEF Copied
    <2>6. QED BY <1>0, <2>2, <2>3, <2>4, <2>5 DEF OldAnswer, Holding, At, Outdated
  <1>4. CASE \E r \in Gets : Store(r)
    <2>1. PICK r \in Gets : Store(r)
      BY <1>4
    <2>2. req[r] \in Storing /\ At(r, "store")
      BY <2>1, Shapes DEF Store
    <2>3. \A s \in Gets \ {r} : req'[s] = req[s]
      BY <2>1 DEF Store, CacheTypeOK
    <2>4. ~OldAnswer(r)'
      BY <2>1 DEF Store, CacheTypeOK, OldAnswer, Holding, At
    <2>5. ASSUME NEW k \in Keys, Outdated(k)'
          PROVE  \/ Outdated(k) /\ left'[k] <= left[k]
                 \/ OldAnswer(r)
      <3>1. CASE entry'[k] = entry[k] /\ left'[k] = left[k]
        BY <1>0, <2>5, <3>1 DEF Outdated
      <3>2. CASE entry'[k] = req[r].answer
        <4>1. req[r].answer \in Contents
          BY <2>2 DEF Storing
        <4>2. QED BY <2>2, <2>5, <3>2, <4>1 DEF Outdated, OldAnswer, Holding
      <3>3. QED BY <2>1, <3>1, <3>2 DEF Store, CacheTypeOK
    <2>6. QED BY <2>3, <2>4, <2>5 DEF OldAnswer, Holding, At
  <1>5. CASE \E r \in Gets : Done(r) \/ BreakOff(r)
    BY <1>0, <1>5 DEF Done, BreakOff, Idle, OldAnswer, Holding, At, Outdated, CacheTypeOK
  <1>6. CASE \E p \in Places : Change(p)
    BY <1>0, <1>6 DEF Change, OldAnswer, Holding, At, Outdated
  <1>7. CASE Crash
    BY <1>0, <1>7 DEF Crash, Idle, OldAnswer, Holding, At, Outdated
  <1>8. CASE CacheTick
    <2>1. \A r \in Gets : OldAnswer(r)' => OldAnswer(r)
      BY <1>8 DEF CacheTick, OldAnswer, Holding, At
    <2>2. \A k \in Keys : Outdated(k)' => Outdated(k) /\ left'[k] <= left[k]
      <3>1. \A k \in Keys : left'[k] <= left[k]
        BY <1>0, <1>8 DEF CacheTick
      <3>2. \A k \in Keys : entry'[k] \in {entry[k], None}
        BY <1>8 DEF CacheTick
      <3>3. QED BY <3>1, <3>2 DEF Outdated
    <2>3. QED BY <2>1, <2>2
  <1>9. CASE UNCHANGED cacheVars
    BY <1>0, <1>9 DEF cacheVars, OldAnswer, Holding, At, Outdated
  <1>10. QED BY <1>1, <1>2, <1>3, <1>4, <1>5, <1>6, <1>7, <1>8, <1>9, CacheCases

\* Once the contents stop changing, what is outdated only gets less: the safety
\* half of CatchesUp.
THEOREM OutdatedOnlyLeaves == CacheSpec => NoNewOutdated
  <1>1. CacheTypeOK /\ [CacheNext]_cacheVars =>
          [content' = content =>
             /\ \A r \in Gets : OldAnswer(r)' => OldAnswer(r)
             /\ \A k \in Keys : Outdated(k)' =>
                  \/ Outdated(k) /\ left'[k] <= left[k]
                  \/ \E r \in Gets : OldAnswer(r) /\ ~OldAnswer(r)']_cacheVars
    BY OutdatedStep
  <1>2. QED BY <1>1, TypeCorrect, PTL DEF CacheSpec, NoNewOutdated

\* The fairness of FairCacheSpec with the enabling conditions written out: time
\* passes while there are entries, and a request in service goes on.
SomeEntry == \E k \in Keys : left[k] > 0
EntryFairness == []<><<CacheTick>>_cacheVars \/ []<>~SomeEntry
EndFairness(r) == []<><<GoOn(r)>>_cacheVars \/ []<>At(r, "idle")

\* A request that holds an answer keeps it, stores it or gives it up; of its own
\* steps the second leaves nothing to store.
LEMMA HoldingStep ==
  ASSUME CacheTypeOK, [CacheNext]_cacheVars, NEW r \in Gets
  PROVE  /\ At(r, "copy") => At(r, "copy")' \/ At(r, "store")' \/ ~Holding(r)'
         /\ At(r, "store") => At(r, "store")' \/ ~Holding(r)'
         /\ GoOn(r) => /\ At(r, "copy") => At(r, "store")' \/ ~Holding(r)'
                       /\ At(r, "store") => ~Holding(r)'
  <1>1. ASSUME GoOn(r)
        PROVE  /\ At(r, "copy") => At(r, "store")' \/ ~Holding(r)'
               /\ At(r, "store") => ~Holding(r)'
    <2>1. CASE Answer(r) \/ Done(r)
      BY <2>1 DEF Answer, Done, At
    <2>2. CASE Copied(r)
      <3>1. req[r] \in Answered /\ At(r, "copy")
        BY <2>2, Shapes DEF Copied
      <3>2. req'[r].pc \in {"store", "served"}
        BY <2>2, <3>1 DEF Copied, CacheTypeOK, Answered
      <3>3. QED BY <3>1, <3>2 DEF At, Holding
    <2>3. CASE Store(r)
      BY <2>3 DEF Store, CacheTypeOK, At, Holding
    <2>4. CASE BreakOff(r)
      BY <2>4 DEF BreakOff, CacheTypeOK, At, Holding, Idle
    <2>5. QED BY <1>1, <2>1, <2>2, <2>3, <2>4 DEF GoOn
  <1>2. CASE \E q \in Gets, p \in Places : Hit(q, p) \/ Miss(q, p)
    BY <1>1, <1>2 DEF Hit, Miss, CacheTypeOK, At, Holding
  <1>3. CASE \E q \in Gets : GoOn(q)
    <2>1. PICK q \in Gets : GoOn(q)
      BY <1>3
    <2>2. CASE q # r
      <3>1. req'[r] = req[r]
        BY <2>1, <2>2 DEF GoOn, Answer, Copied, Store, Done, BreakOff, CacheTypeOK
      <3>2. QED BY <1>1, <3>1 DEF At
    <2>3. QED BY <1>1, <2>1, <2>2
  <1>4. CASE Crash
    BY <1>1, <1>4 DEF Crash, At, Holding, Idle
  <1>5. CASE CacheTick \/ (\E p \in Places : Change(p)) \/ UNCHANGED cacheVars
    BY <1>1, <1>5 DEF CacheTick, Change, cacheVars, At
  <1>6. QED BY <1>2, <1>3, <1>4, <1>5 DEF CacheNext

\* Every request that holds an old answer is rid of it in the end, for good once
\* the contents have stopped changing.
THEOREM OldAnswersEnd ==
  ASSUME NEW r \in Gets
  PROVE  CacheSpec /\ EndFairness(r) =>
           ([][content' = content]_content ~> []~OldAnswer(r))
  <1> DEFINE Copying == At(r, "copy")
             Storage == At(r, "store")
             InUse == ~At(r, "idle")
             Held == Holding(r)
             Old == OldAnswer(r)
  <1>1. CacheTypeOK /\ [CacheNext]_cacheVars /\ content' = content => (~Old => ~Old')
    BY OutdatedStep
  <1>2. /\ Old => Held
        /\ Held <=> Copying \/ Storage
        /\ Held => InUse
    BY DEF OldAnswer, Holding, At
  <1>3. CacheTypeOK /\ [CacheNext]_cacheVars =>
          /\ Copying => Copying' \/ Storage' \/ ~Held'
          /\ Storage => Storage' \/ ~Held'
    BY HoldingStep
  <1>4. CacheTypeOK /\ [CacheNext]_cacheVars /\ <<GoOn(r)>>_cacheVars =>
          /\ Copying => Storage' \/ ~Held'
          /\ Storage => ~Held'
    BY HoldingStep
  <1>5. At(r, "idle") => ~InUse
    OBVIOUS
  <1>6. [content' = content]_content => content' = content
    OBVIOUS
  <1> HIDE DEF Copying, Storage, InUse, Held, Old
  <1>7. CacheSpec /\ EndFairness(r) => ([][content' = content]_content ~> []~Old)
    BY <1>1, <1>2, <1>3, <1>4, <1>5, <1>6, TypeCorrect, PTL DEF CacheSpec, EndFairness
  <1>8. QED BY <1>7 DEF Old

\* No request holds an old answer.
Quiet == \A r \in Gets : ~OldAnswer(r)

\* When the contents have stopped changing and no request holds an old answer,
\* an outdated entry with n ticks to live has n - 1 in the end or is gone,
\* whatever hits it: the last steps by which CatchesUp is reached.
THEOREM OutdatedAges ==
  ASSUME NEW k \in Keys, NEW n \in Nat \ {0}
  PROVE  CacheSpec /\ EntryFairness =>
           (([][content' = content]_content
              /\ (Quiet /\ Outdated(k) /\ left[k] <= n))
            ~> (~Outdated(k) \/ left[k] <= n - 1))
  <1> DEFINE Now == Quiet /\ Outdated(k) /\ left[k] <= n
             Later == ~Outdated(k) \/ left[k] <= n - 1
  <1>0. CacheTypeOK => left[k] \in Nat
    BY CacheAssumption DEF CacheTypeOK
  <1>1. CacheTypeOK /\ CacheTypeOK' /\ [CacheNext]_cacheVars /\ content' = content /\ Now => Now' \/ Later'
    <2> SUFFICES ASSUME CacheTypeOK, CacheTypeOK', [CacheNext]_cacheVars, content' = content, Now, Outdated(k)'
                 PROVE  Now'
      OBVIOUS
    <2>1. Quiet'
      BY OutdatedStep DEF Quiet
    <2>2. left'[k] <= left[k]
      BY OutdatedStep DEF Quiet
    <2>3. left[k] \in Nat /\ left'[k] \in Nat
      BY CacheAssumption DEF CacheTypeOK
    <2>4. QED BY <2>1, <2>2, <2>3
  <1>2. CacheTypeOK /\ Now /\ <<CacheTick>>_cacheVars => Later'
    <2> SUFFICES ASSUME CacheTypeOK, Now, CacheTick, Outdated(k)' PROVE left'[k] <= n - 1
      OBVIOUS
    <2>1. left[k] \in Nat /\ entry'[k] # None
      BY <1>0 DEF Outdated
    <2>2. left[k] > 1 /\ left'[k] = left[k] - 1
      BY <2>1 DEF CacheTick
    <2>3. QED BY <2>1, <2>2
  <1>3. CacheTypeOK /\ Now => SomeEntry
    <2> SUFFICES ASSUME CacheTypeOK, Now PROVE SomeEntry
      OBVIOUS
    <2>1. left[k] # 0
      BY DEF CacheTypeOK, Outdated
    <2>2. QED BY <1>0, <2>1 DEF SomeEntry
  <1>4. [content' = content]_content => content' = content
    OBVIOUS
  <1> HIDE DEF Now, Later
  <1>5. CacheSpec /\ EntryFairness => (([][content' = content]_content /\ Now) ~> Later)
    BY <1>1, <1>2, <1>3, <1>4, TypeCorrect, PTL DEF CacheSpec, EntryFairness
  <1>6. QED BY <1>5 DEF Now, Later

-----------------------------------------------------------------------------
\* The rate limiter: steps and operators.

LEMMA LimiterCases ==
  ASSUME [LimiterNext]_limiterVars
  PROVE  \/ \E c \in Conns : Incr(c)
         \/ \E c \in Conns : IncrUnanswered(c)
         \/ \E c \in Conns : Expire(c)
         \/ \E c \in Conns : Finished(c)
         \/ GatewayDies
         \/ TimePasses
         \/ UNCHANGED limiterVars
  BY DEF LimiterNext

\* Up counts to one past any limit and stays there; an admitted number has been
\* counted exactly, and before one that is not the limit had been reached.
LEMMA UpCounts ==
  ASSUME NEW n \in 0 .. MaxLimit + 1, NEW r \in Routes
  PROVE  /\ Up(n) \in 1 .. MaxLimit + 1
         /\ n <= Up(n)
         /\ Up(n) = 1 <=> n = 0
         /\ Admitted(Up(n), r) => Up(n) = n + 1 /\ Up(n) <= Limit[r]
         /\ ~Admitted(Up(n), r) => Limit[r] <= n
         /\ \A m \in 0 .. n : Up(m) <= Up(n)
  <1>1. MaxLimit \in Nat /\ Limit[r] \in 1 .. MaxLimit
    BY LimiterAssumption
  <1>2. QED BY <1>1 DEF Up, Admitted

\* What a request finds and leaves when it counts itself.
LEMMA IncrShape ==
  ASSUME LimiterTypeOK, NEW c \in Conns, Incr(c)
  PROVE  LET k == CounterOf[c]
             r == RouteOf[c]
         IN  /\ k \in Counters /\ r \in Routes /\ phase[c] = "idle"
             /\ count[k] \in 0 .. MaxLimit + 1 /\ spent[k] \in 0 .. MaxLimit + 1
             /\ through[k][r] \in 0 .. MaxLimit + 1
             /\ count' = [count EXCEPT ![k] = Up(count[k])]
             /\ ttl' = [ttl EXCEPT ![k] = IF count[k] = 0 THEN Forever ELSE @]
             /\ phase' = [phase EXCEPT ![c] = AfterIncr(Up(count[k]), r)]
             /\ lost' = lost
             /\ IF Admitted(Up(count[k]), r)
                THEN /\ through' = [through EXCEPT ![k] = [@ EXCEPT ![r] = Up(through[k][r])]]
                     /\ spent' = [spent EXCEPT ![k] = Up(spent[k])]
                ELSE through' = through /\ spent' = spent
  BY LimiterAssumption DEF Incr, LimiterTypeOK

\* The same when the answer is lost.
LEMMA UnansweredShape ==
  ASSUME LimiterTypeOK, NEW c \in Conns, IncrUnanswered(c)
  PROVE  LET k == CounterOf[c]
         IN  /\ k \in Counters /\ RouteOf[c] \in Routes /\ phase[c] = "idle"
             /\ count[k] \in 0 .. MaxLimit + 1 /\ spent[k] \in 0 .. MaxLimit + 1
             /\ count' = [count EXCEPT ![k] = Up(count[k])]
             /\ ttl' = [ttl EXCEPT ![k] = IF count[k] = 0 THEN Forever ELSE @]
             /\ phase' \in {phase, [phase EXCEPT ![c] = "forwarded"]}
             /\ lost' = IF count[k] = 0 THEN lost \cup {k} ELSE lost
             /\ through' = through
             /\ spent' = [spent EXCEPT ![k] = Up(spent[k])]
  BY LimiterAssumption DEF IncrUnanswered, LimiterTypeOK

\* Redis removes the counters whose time is up, and what they counted is history.
LEMMA Expiry ==
  ASSUME LimiterTypeOK, TimePasses
  PROVE  /\ ttl' \in [Counters -> 0 .. Forever]
         /\ count' \in [Counters -> 0 .. MaxLimit + 1]
         /\ through' \in [Counters -> [Routes -> 0 .. MaxLimit + 1]]
         /\ spent' \in [Counters -> 0 .. MaxLimit + 1]
         /\ \A k \in Counters :
              /\ ttl'[k] = IF ttl[k] \in 1 .. LongestWindow THEN ttl[k] - 1 ELSE ttl[k]
              /\ IF ttl'[k] = 0
                 THEN count'[k] = 0 /\ spent'[k] = 0 /\ \A r \in Routes : through'[k][r] = 0
                 ELSE count'[k] = count[k] /\ spent'[k] = spent[k] /\ through'[k] = through[k]
         /\ phase' = phase /\ lost' = lost
  <1>1. ttl' \in [Counters -> 0 .. Forever]
    BY LimiterAssumption DEF TimePasses, LimiterTypeOK, Forever
  <1>2. /\ count' \in [Counters -> 0 .. MaxLimit + 1]
        /\ spent' \in [Counters -> 0 .. MaxLimit + 1]
    BY LimiterAssumption DEF TimePasses, LimiterTypeOK
  <1>3. through' \in [Counters -> [Routes -> 0 .. MaxLimit + 1]]
    <2>1. [r \in Routes |-> 0] \in [Routes -> 0 .. MaxLimit + 1]
      BY LimiterAssumption
    <2>2. QED BY <2>1 DEF TimePasses, LimiterTypeOK
  <1>4. QED BY <1>1, <1>2, <1>3 DEF TimePasses

-----------------------------------------------------------------------------
\* The rate limiter: types, and who sets the life of a counter.

\* A request that is about to send EXPIRE has created the counter, alone, and
\* nothing has set or ended its life since.
Creators ==
  \A c \in Conns :
    phase[c] = "first" =>
      /\ ttl[CounterOf[c]] = Forever
      /\ \A d \in Conns \ {c} : CounterOf[d] = CounterOf[c] => phase[d] # "first"

\* A counter without an expiry is about to get one, or its EXPIRE is lost.
StuckWasLost ==
  \A k \in Counters :
    ttl[k] = Forever => k \in lost \/ \E c \in Conns : CounterOf[c] = k /\ phase[c] = "first"

LimiterInv == LimiterTypeOK /\ Creators /\ StuckWasLost

\* A request that is counted, whether it hears of it or not.
LEMMA CountedStep ==
  ASSUME LimiterInv, NEW c \in Conns, Incr(c) \/ IncrUnanswered(c)
  PROVE  /\ count' \in [Counters -> 0 .. MaxLimit + 1]
         /\ ttl' \in [Counters -> 0 .. Forever]
         /\ spent' \in [Counters -> 0 .. MaxLimit + 1]
         /\ phase' \in [Conns -> {"idle", "first", "forwarded", "denied"}]
         /\ \A k \in Counters : count'[k] = 0 <=> ttl'[k] = 0
         /\ \A d \in Conns \ {c} : phase'[d] = phase[d]
         /\ phase'[c] = "first" => Incr(c) /\ count[CounterOf[c]] = 0
         /\ \A k \in Counters :
              ttl'[k] # ttl[k] => k = CounterOf[c] /\ count[k] = 0 /\ ttl'[k] = Forever
         /\ \A k \in Counters :
              count'[k] = IF k = CounterOf[c] THEN Up(count[k]) ELSE count[k]
         /\ \/ \A k \in Counters :
                 spent'[k] = IF k = CounterOf[c] THEN Up(spent[k]) ELSE spent[k]
            \/ spent' = spent /\ ~Admitted(Up(count[CounterOf[c]]), RouteOf[c])
         /\ lost \subseteq lost' /\ lost' \subseteq Counters
  <1> DEFINE k == CounterOf[c]
  <1>0. Forever \in Nat \ {0}
    BY LimiterAssumption DEF Forever
  <1>1. /\ k \in Counters /\ RouteOf[c] \in Routes /\ phase[c] = "idle"
        /\ count[k] \in 0 .. MaxLimit + 1 /\ spent[k] \in 0 .. MaxLimit + 1
        /\ count' = [count EXCEPT ![k] = Up(count[k])]
        /\ ttl' = [ttl EXCEPT ![k] = IF count[k] = 0 THEN Forever ELSE @]
        /\ spent' \in {spent, [spent EXCEPT ![k] = Up(spent[k])]}
        /\ \/ Incr(c) /\ phase' = [phase EXCEPT ![c] = AfterIncr(Up(count[k]), RouteOf[c])]
           \/ phase' \in {phase, [phase EXCEPT ![c] = "forwarded"]}
    BY IncrShape, UnansweredShape DEF LimiterInv
  <1>2. Up(count[k]) \in 1 .. MaxLimit + 1 /\ Up(spent[k]) \in 1 .. MaxLimit + 1
    BY <1>1, UpCounts
  <1>3. Up(count[k]) = 1 <=> count[k] = 0
    BY <1>1, UpCounts
  <1>4. /\ count' \in [Counters -> 0 .. MaxLimit + 1]
        /\ ttl' \in [Counters -> 0 .. Forever]
        /\ spent' \in [Counters -> 0 .. MaxLimit + 1]
    <2>1. count' \in [Counters -> 0 .. MaxLimit + 1]
      BY <1>1, <1>2, LimiterAssumption DEF LimiterInv, LimiterTypeOK
    <2>2. ttl' \in [Counters -> 0 .. Forever]
      BY <1>0, <1>1 DEF LimiterInv, LimiterTypeOK
    <2>3. spent' \in [Counters -> 0 .. MaxLimit + 1]
      <3>1. spent \in [Counters -> 0 .. MaxLimit + 1] /\ Up(spent[k]) \in 0 .. MaxLimit + 1
        BY <1>2 DEF LimiterInv, LimiterTypeOK
      <3>2. QED BY <1>1, <3>1
    <2>4. QED BY <2>1, <2>2, <2>3
  <1>5. \A j \in Counters : count'[j] = 0 <=> ttl'[j] = 0
    BY <1>0, <1>1, <1>2 DEF LimiterInv, LimiterTypeOK
  <1>6. phase' \in [Conns -> {"idle", "first", "forwarded", "denied"}]
    BY <1>1 DEF AfterIncr, LimiterInv, LimiterTypeOK
  <1>7. /\ \A d \in Conns \ {c} : phase'[d] = phase[d]
        /\ phase'[c] = "first" => Incr(c) /\ count[k] = 0
    BY <1>1, <1>3 DEF AfterIncr, LimiterInv, LimiterTypeOK
  <1>8. \A j \in Counters : ttl'[j] # ttl[j] => j = k /\ count[j] = 0 /\ ttl'[j] = Forever
    BY <1>1 DEF LimiterInv, LimiterTypeOK
  <1>9. \A j \in Counters : count'[j] = IF j = k THEN Up(count[j]) ELSE count[j]
    BY <1>1 DEF LimiterInv, LimiterTypeOK
  <1>10. /\ \/ \A j \in Counters : spent'[j] = IF j = k THEN Up(spent[j]) ELSE spent[j]
            \/ spent' = spent /\ ~Admitted(Up(count[k]), RouteOf[c])
         /\ lost \subseteq lost' /\ lost' \subseteq Counters
    <2>1. spent \in [Counters -> 0 .. MaxLimit + 1] /\ lost \subseteq Counters
      BY DEF LimiterInv, LimiterTypeOK
    <2>2. \/ spent' = [spent EXCEPT ![k] = Up(spent[k])]
          \/ spent' = spent /\ ~Admitted(Up(count[k]), RouteOf[c])
      BY IncrShape, UnansweredShape DEF LimiterInv
    <2>3. lost' = lost \/ lost' = lost \cup {k}
      BY IncrShape, UnansweredShape DEF LimiterInv
    <2>4. QED BY <1>1, <2>1, <2>2, <2>3
  <1>11. QED BY <1>4, <1>5, <1>6, <1>7, <1>8, <1>9, <1>10

LEMMA CreatorsCounted ==
  ASSUME LimiterInv, NEW c \in Conns, Incr(c) \/ IncrUnanswered(c)
  PROVE  Creators' /\ StuckWasLost'
  <1> DEFINE k == CounterOf[c]
  <1>0. /\ \A d \in Conns : CounterOf[d] \in Counters
        /\ phase[c] = "idle"
        /\ Forever # 0
    BY LimiterAssumption DEF Forever, Incr, IncrUnanswered
  <1>1. count[k] = 0 => \A d \in Conns : CounterOf[d] = k => phase[d] # "first"
    BY <1>0 DEF LimiterInv, LimiterTypeOK, Creators
  <1>2. Creators'
    <2> SUFFICES ASSUME NEW d \in Conns, phase'[d] = "first"
                 PROVE  /\ ttl'[CounterOf[d]] = Forever
                        /\ \A e \in Conns \ {d} : CounterOf[e] = CounterOf[d] => phase'[e] # "first"
      BY DEF Creators
    <2>1. CASE d = c
      <3>1. Incr(c) /\ count[k] = 0
        BY <2>1, CountedStep
      <3>2. ttl'[k] = Forever
        BY <1>0, <3>1, IncrShape DEF LimiterInv, LimiterTypeOK
      <3>3. QED BY <1>1, <2>1, <3>1, <3>2, CountedStep
    <2>2. CASE d # c
      <3>1. phase[d] = "first"
        BY <2>2, CountedStep
      <3>2. /\ ttl[CounterOf[d]] = Forever
            /\ \A e \in Conns \ {d} : CounterOf[e] = CounterOf[d] => phase[e] # "first"
        BY <3>1 DEF LimiterInv, Creators
      <3>3. ttl'[CounterOf[d]] = Forever
        BY <1>0, <3>2, CountedStep
      <3>4. CounterOf[d] = k => phase'[c] # "first"
        BY <1>1, <3>1, CountedStep
      <3>5. QED BY <3>2, <3>3, <3>4, CountedStep
    <2>3. QED BY <2>1, <2>2
  <1>3. StuckWasLost'
    <2> SUFFICES ASSUME NEW j \in Counters, ttl'[j] = Forever
                 PROVE  \/ j \in lost'
                        \/ \E d \in Conns : CounterOf[d] = j /\ phase'[d] = "first"
      BY DEF StuckWasLost
    <2>1. CASE ttl[j] = Forever
      <3>1. lost \subseteq lost'
        BY CountedStep
      <3>2. CASE j \in lost
        BY <3>1, <3>2
      <3>3. CASE \E d \in Conns : CounterOf[d] = j /\ phase[d] = "first"
        BY <1>0, <3>3, CountedStep
      <3>4. QED BY <2>1, <3>2, <3>3 DEF LimiterInv, StuckWasLost
    <2>2. CASE ttl[j] # Forever
      <3>1. j = k /\ count[k] = 0
        BY <2>2, CountedStep
      <3>2. CASE Incr(c)
        <4>1. Up(count[k]) = 1
          BY <3>1, <3>2, IncrShape, UpCounts DEF LimiterInv
        <4>2. phase'[c] = "first"
          BY <3>2, <4>1, IncrShape DEF AfterIncr, LimiterInv, LimiterTypeOK
        <4>3. QED BY <3>1, <4>2
      <3>3. CASE IncrUnanswered(c)
        BY <3>1, <3>3, UnansweredShape DEF LimiterInv
      <3>4. QED BY <3>2, <3>3
    <2>3. QED BY <2>1, <2>2
  <1>4. QED BY <1>2, <1>3

LEMMA LimiterInvStep ==
  ASSUME LimiterInv, [LimiterNext]_limiterVars
  PROVE  LimiterInv'
  <1> USE DEF LimiterInv
  <1>0. /\ Forever \in Nat \ {0} /\ Forever \notin 0 .. LongestWindow
        /\ \A r \in Routes : Window[r] \in 1 .. LongestWindow
        /\ \A c \in Conns : CounterOf[c] \in Counters /\ RouteOf[c] \in Routes
        /\ LongestWindow \in Nat
    BY LimiterAssumption DEF Forever
  <1>1. CASE \E c \in Conns : Incr(c) \/ IncrUnanswered(c)
    <2>1. PICK c \in Conns : Incr(c) \/ IncrUnanswered(c)
      BY <1>1
    <2>2. through' \in [Counters -> [Routes -> 0 .. MaxLimit + 1]]
      <3>1. CASE Incr(c)
        <4>1. Up(through[CounterOf[c]][RouteOf[c]]) \in 0 .. MaxLimit + 1
          BY <3>1, IncrShape, UpCounts, LimiterAssumption
        <4>2. \/ through' = through
              \/ through' = [through EXCEPT ![CounterOf[c]] =
                              [@ EXCEPT ![RouteOf[c]] = Up(through[CounterOf[c]][RouteOf[c]])]]
          BY <3>1, IncrShape
        <4>3. CounterOf[c] \in Counters /\ through \in [Counters -> [Routes -> 0 .. MaxLimit + 1]]
          BY <1>0 DEF LimiterTypeOK
        <4>4. [through[CounterOf[c]] EXCEPT ![RouteOf[c]] = Up(through[CounterOf[c]][RouteOf[c]])]
                \in [Routes -> 0 .. MaxLimit + 1]
          BY <4>1, <4>3
        <4>5. QED BY <4>2, <4>3, <4>4
      <3>2. CASE IncrUnanswered(c)
        BY <3>2 DEF IncrUnanswered, LimiterTypeOK
      <3>3. QED BY <2>1, <3>1, <3>2
    <2>3. lost' \subseteq Counters
      BY <2>1, CountedStep
    <2>4. LimiterTypeOK'
      BY <2>1, <2>2, <2>3, CountedStep DEF LimiterTypeOK
    <2>5. QED BY <2>1, <2>4, CreatorsCounted
  <1>2. CASE \E c \in Conns : Expire(c)
    <2>1. PICK c \in Conns : Expire(c)
      BY <1>2
    <2> DEFINE k == CounterOf[c]
    <2>2. k \in Counters /\ Window[RouteOf[c]] \in 1 .. LongestWindow
      BY <1>0
    <2>3. ttl[k] = Forever /\ count[k] # 0
      BY <2>1, <2>2, <1>0 DEF Expire, Creators, LimiterTypeOK
    <2>4. /\ phase' \in [Conns -> {"idle", "first", "forwarded", "denied"}]
          /\ phase'[c] # "first" /\ \A d \in Conns \ {c} : phase'[d] = phase[d]
      BY <2>1 DEF Expire, LimiterTypeOK
    <2>5. \/ ttl' = [ttl EXCEPT ![k] = Window[RouteOf[c]]] /\ lost' = lost
          \/ ttl' = ttl /\ lost' = lost \cup {k}
      BY <2>1 DEF Expire
    <2>6. ttl' \in [Counters -> 0 .. Forever] /\ lost' \subseteq Counters
      BY <2>2, <2>5, <1>0 DEF LimiterTypeOK, Forever
    <2>7. UNCHANGED <<count, through, spent>>
      BY <2>1 DEF Expire
    <2>8. \A j \in Counters : count'[j] = 0 <=> ttl'[j] = 0
      BY <2>2, <2>3, <2>5, <2>7, <1>0 DEF LimiterTypeOK
    <2>9. Creators'
      <3>1. \A d \in Conns : phase'[d] = "first" => ttl'[CounterOf[d]] = ttl[CounterOf[d]]
        BY <1>0, <2>1, <2>4, <2>5 DEF Expire, LimiterTypeOK, Creators
      <3>2. QED BY <2>4, <3>1 DEF Creators
    <2>10. StuckWasLost'
      <3> SUFFICES ASSUME NEW j \in Counters, ttl'[j] = Forever
                   PROVE  \/ j \in lost'
                          \/ \E d \in Conns : CounterOf[d] = j /\ phase'[d] = "first"
        BY DEF StuckWasLost
      <3>1. CASE j = k
        BY <1>0, <2>2, <2>5, <3>1 DEF LimiterTypeOK
      <3>2. CASE j # k
        BY <2>4, <2>5, <3>2 DEF LimiterTypeOK, StuckWasLost
      <3>3. QED BY <3>1, <3>2
    <2>11. QED BY <2>4, <2>6, <2>7, <2>8, <2>9, <2>10 DEF LimiterTypeOK
  <1>3. CASE \E c \in Conns : Finished(c)
    BY <1>3 DEF Finished, LimiterTypeOK, Creators, StuckWasLost
  <1>4. CASE GatewayDies
    BY <1>0, <1>4 DEF GatewayDies, LimiterTypeOK, Creators, StuckWasLost
  <1>5. CASE TimePasses
    <2>1. \A k \in Counters : count'[k] = 0 <=> ttl'[k] = 0
      BY <1>5, Expiry DEF LimiterTypeOK
    <2>2. \A k \in Counters : ttl[k] = Forever <=> ttl'[k] = Forever
      BY <1>0, <1>5, Expiry DEF LimiterTypeOK, Forever
    <2>3. Creators' /\ StuckWasLost'
      BY <1>0, <1>5, <2>2, Expiry DEF Creators, StuckWasLost
    <2>4. QED BY <1>5, <2>1, <2>3, Expiry DEF LimiterTypeOK
  <1>6. CASE UNCHANGED limiterVars
    BY <1>6 DEF limiterVars, LimiterTypeOK, Creators, StuckWasLost
  <1>7. QED BY <1>1, <1>2, <1>3, <1>4, <1>5, <1>6, LimiterCases

LEMMA LimiterInvariant == LimiterSpec => []LimiterInv
  <1>1. LimiterInit => LimiterInv
    BY LimiterAssumption DEF LimiterInit, LimiterInv, LimiterTypeOK, Creators, StuckWasLost, Forever
  <1>2. LimiterInv /\ [LimiterNext]_limiterVars => LimiterInv'
    BY LimiterInvStep
  <1>3. QED BY <1>1, <1>2, PTL DEF LimiterSpec

\* A counter exists exactly while it has some life left, and one without an
\* expiry is about to get it or has lost its EXPIRE for good, however requests
\* race, answers get lost and the gateway dies.
THEOREM LimiterTypeCorrect == LimiterSpec => [](LimiterTypeOK /\ StuckWasLost)
  <1>1. LimiterInv => LimiterTypeOK /\ StuckWasLost
    BY DEF LimiterInv
  <1>2. QED BY <1>1, LimiterInvariant, PTL

-----------------------------------------------------------------------------
\* The rate limiter: the limit of a route.

\* What a route has admitted on a counter is at most what the counter says, and
\* nothing has been admitted on a number beyond the limit.
ThroughIsCounted ==
  /\ \A k \in Counters, r \in Routes : through[k][r] <= count[k]
  /\ LimitPerKey

LEMMA ThroughStep ==
  ASSUME LimiterInv, ThroughIsCounted, [LimiterNext]_limiterVars
  PROVE  ThroughIsCounted'
  <1> USE DEF LimiterInv
  <1>0. /\ \A k \in Counters : count[k] \in 0 .. MaxLimit + 1
        /\ \A k \in Counters, r \in Routes : through[k][r] \in 0 .. MaxLimit + 1
        /\ \A r \in Routes : Limit[r] \in Nat
        /\ MaxLimit \in Nat
    BY LimiterAssumption DEF LimiterTypeOK
  <1>1. CASE \E c \in Conns : Incr(c)
    <2>1. PICK c \in Conns : Incr(c)
      BY <1>1
    <2> DEFINE k == CounterOf[c]
               r == RouteOf[c]
    <2>2. k \in Counters /\ r \in Routes
      BY <2>1, IncrShape
    <2>3. /\ Up(count[k]) \in 1 .. MaxLimit + 1 /\ count[k] <= Up(count[k])
          /\ Admitted(Up(count[k]), r) => Up(count[k]) <= Limit[r]
          /\ Up(through[k][r]) <= Up(count[k]) /\ Up(through[k][r]) \in 1 .. MaxLimit + 1
      <3>1. through[k][r] \in 0 .. count[k]
        BY <1>0, <2>2 DEF ThroughIsCounted
      <3>2. QED BY <1>0, <2>2, <3>1, UpCounts
    <2>4. \A j \in Counters : count'[j] = IF j = k THEN Up(count[k]) ELSE count[j]
      BY <2>1, CountedStep
    <2>5. \A j \in Counters, q \in Routes :
            \/ through'[j][q] = through[j][q]
            \/ /\ j = k /\ q = r /\ Admitted(Up(count[k]), r)
               /\ through'[j][q] = Up(through[k][r])
      <3>1. CASE through' = through
        BY <3>1
      <3>2. CASE /\ Admitted(Up(count[k]), r)
                 /\ through' = [through EXCEPT ![k] = [@ EXCEPT ![r] = Up(through[k][r])]]
        BY <3>2 DEF LimiterTypeOK
      <3>3. QED BY <2>1, <3>1, <3>2, IncrShape
    <2> HIDE DEF k, r
    <2>6. SUFFICES ASSUME NEW j \in Counters, NEW q \in Routes
                   PROVE  through'[j][q] <= count'[j] /\ through'[j][q] <= Limit[q]
      BY DEF ThroughIsCounted, LimitPerKey
    <2>7. through[j][q] <= count[j] /\ through[j][q] <= Limit[q]
      BY DEF ThroughIsCounted, LimitPerKey
    <2>8. count[j] <= count'[j] /\ count'[j] \in Nat
      BY <1>0, <2>3, <2>4
    <2>9. CASE through'[j][q] = through[j][q]
      BY <1>0, <2>7, <2>8, <2>9
    <2>10. CASE through'[j][q] # through[j][q]
      <3>1. j = k /\ q = r /\ Admitted(Up(count[k]), r) /\ through'[j][q] = Up(through[k][r])
        BY <2>5, <2>10
      <3>2. QED BY <1>0, <2>3, <2>4, <3>1
    <2>11. QED BY <2>9, <2>10
  <1>2. CASE \E c \in Conns : IncrUnanswered(c)
    <2>1. PICK c \in Conns : IncrUnanswered(c)
      BY <1>2
    <2>2. Up(count[CounterOf[c]]) \in Nat /\ count[CounterOf[c]] <= Up(count[CounterOf[c]])
      BY <1>0, <2>1, UnansweredShape, UpCounts
    <2>3. \A j \in Counters : count'[j] \in Nat /\ count[j] <= count'[j]
      BY <1>0, <2>1, <2>2, UnansweredShape DEF LimiterTypeOK
    <2>4. through' = through
      BY <2>1, UnansweredShape
    <2>5. QED BY <1>0, <2>3, <2>4 DEF ThroughIsCounted, LimitPerKey
  <1>3. CASE \E c \in Conns : Expire(c) \/ Finished(c)
    BY <1>3 DEF Expire, Finished, ThroughIsCounted, LimitPerKey
  <1>4. CASE GatewayDies
    BY <1>4 DEF GatewayDies, ThroughIsCounted, LimitPerKey
  <1>5. CASE TimePasses
    BY <1>0, <1>5, Expiry DEF ThroughIsCounted, LimitPerKey
  <1>6. CASE UNCHANGED limiterVars
    BY <1>6 DEF limiterVars, ThroughIsCounted, LimitPerKey
  <1>7. QED BY <1>1, <1>2, <1>3, <1>4, <1>5, <1>6, LimiterCases

\* However connections share counters and routes share keys, a route never admits
\* more than its limit in the life of a counter.
THEOREM WithinLimit == LimiterSpec => []LimitPerKey
  <1>1. LimiterInit => ThroughIsCounted
    BY LimiterAssumption DEF LimiterInit, ThroughIsCounted, LimitPerKey
  <1>2. LimiterInv /\ ThroughIsCounted /\ [LimiterNext]_limiterVars => ThroughIsCounted'
    BY ThroughStep
  <1>3. ThroughIsCounted => LimitPerKey
    BY DEF ThroughIsCounted
  <1>4. QED BY <1>1, <1>2, <1>3, LimiterInvariant, PTL DEF LimiterSpec

-----------------------------------------------------------------------------
\* The rate limiter: who is turned away.

\* Some route's limit has been spent on a counter.
Exhausted(k) == \E r \in Routes : Limit[r] <= spent[k]

\* Until then everything counted has been spent: requests are turned away only
\* at a limit.
CountedIsSpent == \A k \in Counters : count[k] <= spent[k] \/ Exhausted(k)

LEMMA SpentStep ==
  ASSUME LimiterInv, CountedIsSpent, [LimiterNext]_limiterVars
  PROVE  CountedIsSpent'
  <1> USE DEF LimiterInv
  <1>0. /\ \A k \in Counters : count[k] \in 0 .. MaxLimit + 1 /\ spent[k] \in 0 .. MaxLimit + 1
        /\ \A r \in Routes : Limit[r] \in Nat
        /\ MaxLimit \in Nat
    BY LimiterAssumption DEF LimiterTypeOK
  <1>1. ASSUME NEW c \in Conns, Incr(c) \/ IncrUnanswered(c)
        PROVE  CountedIsSpent'
    <2> DEFINE k == CounterOf[c]
               r == RouteOf[c]
    <2>1. /\ k \in Counters /\ r \in Routes
          /\ \A j \in Counters : count'[j] = IF j = k THEN Up(count[k]) ELSE count[j]
      BY <1>1, CountedStep, LimiterAssumption
    <2>2. \/ \A j \in Counters : spent'[j] = IF j = k THEN Up(spent[k]) ELSE spent[j]
          \/ spent' = spent /\ ~Admitted(Up(count[k]), r)
      BY <1>1, CountedStep
    <2> HIDE DEF k, r
    <2>3. /\ Up(spent[k]) \in Nat /\ Up(count[k]) \in Nat /\ spent[k] <= Up(spent[k])
          /\ ~Admitted(Up(count[k]), r) => Limit[r] <= count[k]
          /\ count[k] <= spent[k] => Up(count[k]) <= Up(spent[k])
      <3>1. count[k] <= spent[k] => count[k] \in 0 .. spent[k]
        BY <1>0, <2>1
      <3>2. QED BY <1>0, <2>1, <3>1, UpCounts
    <2>4. SUFFICES ASSUME NEW j \in Counters PROVE count'[j] <= spent'[j] \/ Exhausted(j)'
      BY DEF CountedIsSpent
    <2>5. count[j] <= spent[j] \/ \E q \in Routes : Limit[q] <= spent[j]
      BY DEF CountedIsSpent, Exhausted
    <2>6. CASE \A i \in Counters : spent'[i] = IF i = k THEN Up(spent[k]) ELSE spent[i]
      <3>1. spent[j] <= spent'[j] /\ spent'[j] \in Nat
        BY <1>0, <2>1, <2>3, <2>6
      <3>2. CASE count[j] <= spent[j]
        BY <2>1, <2>3, <2>6, <3>2
      <3>3. CASE \E q \in Routes : Limit[q] <= spent[j]
        BY <1>0, <3>1, <3>3 DEF Exhausted
      <3>4. QED BY <2>5, <3>2, <3>3
    <2>7. CASE spent' = spent /\ ~Admitted(Up(count[k]), r)
      <3>1. CASE j # k \/ \E q \in Routes : Limit[q] <= spent[j]
        BY <2>1, <2>5, <2>7, <3>1 DEF Exhausted
      <3>2. CASE j = k /\ count[j] <= spent[j]
        <4>1. Limit[r] <= spent[k]
          BY <1>0, <2>1, <2>3, <2>7, <3>2
        <4>2. QED BY <2>1, <2>7, <3>2, <4>1 DEF Exhausted
      <3>3. QED BY <2>5, <3>1, <3>2
    <2>8. QED BY <2>2, <2>6, <2>7
  <1>2. CASE \E c \in Conns : Expire(c) \/ Finished(c)
    BY <1>2 DEF Expire, Finished, CountedIsSpent, Exhausted
  <1>3. CASE GatewayDies
    BY <1>3 DEF GatewayDies, CountedIsSpent, Exhausted
  <1>4. CASE TimePasses
    <2> SUFFICES ASSUME NEW k \in Counters PROVE count'[k] <= spent'[k] \/ Exhausted(k)'
      BY DEF CountedIsSpent
    <2>1. CASE ttl'[k] = 0
      BY <1>4, <2>1, Expiry
    <2>2. CASE ttl'[k] # 0
      BY <1>4, <2>2, Expiry DEF CountedIsSpent, Exhausted
    <2>3. QED BY <2>1, <2>2
  <1>5. CASE UNCHANGED limiterVars
    BY <1>5 DEF limiterVars, CountedIsSpent, Exhausted
  <1>6. QED BY <1>1, <1>2, <1>3, <1>4, <1>5, LimiterCases

\* Only a request that has just been given a number beyond the limit is denied:
\* the one that creates a counter never is.
LEMMA DeniedByIncr ==
  ASSUME LimiterInv, [LimiterNext]_limiterVars,
         NEW c \in Conns, phase[c] # "denied", phase'[c] = "denied"
  PROVE  Incr(c) /\ ~Admitted(Up(count[CounterOf[c]]), RouteOf[c])
  <1> USE DEF LimiterInv
  <1>1. \A d \in Conns : RouteOf[d] \in Routes /\ Admitted(1, RouteOf[d])
    BY LimiterAssumption DEF Admitted
  <1>2. Incr(c)
    <2>1. CASE \E d \in Conns : Incr(d) \/ IncrUnanswered(d)
      <3>1. PICK d \in Conns : Incr(d) \/ IncrUnanswered(d)
        BY <2>1
      <3>2. d = c
        BY <3>1, CountedStep
      <3>3. ~IncrUnanswered(c)
        BY UnansweredShape DEF LimiterTypeOK
      <3>4. QED BY <3>1, <3>2, <3>3
    <2>2. CASE \E d \in Conns : Expire(d)
      <3>1. PICK d \in Conns : Expire(d)
        BY <2>2
      <3>2. phase'[d] = "forwarded" /\ \A e \in Conns \ {d} : phase'[e] = phase[e]
        BY <1>1, <3>1 DEF Expire, LimiterTypeOK
      <3>3. QED BY <3>2
    <2>3. QED BY <2>1, <2>2, LimiterCases
          DEF Finished, GatewayDies, TimePasses, limiterVars, LimiterTypeOK
  <1>3. QED BY <1>2, IncrShape DEF AfterIncr, LimiterTypeOK

\* Nobody is turned away before the limit of some route has been spent on his
\* counter, whoever else and whatever other route shares it.
THEOREM DeniedRightly == LimiterSpec => DeniedWhenExhausted
  <1>1. LimiterInit => CountedIsSpent
    BY LimiterAssumption DEF LimiterInit, CountedIsSpent
  <1>2. LimiterInv /\ CountedIsSpent /\ [LimiterNext]_limiterVars => CountedIsSpent'
    BY SpentStep
  <1>3. ASSUME LimiterInv, CountedIsSpent, [LimiterNext]_limiterVars,
               NEW c \in Conns, phase[c] # "denied", phase'[c] = "denied"
        PROVE  \E r \in Routes : Limit[r] <= spent'[CounterOf[c]]
    <2> DEFINE k == CounterOf[c]
    <2>1. Incr(c) /\ ~Admitted(Up(count[k]), RouteOf[c])
      BY <1>3, DeniedByIncr
    <2>2. /\ k \in Counters /\ RouteOf[c] \in Routes /\ spent' = spent
          /\ count[k] \in 0 .. MaxLimit + 1 /\ spent[k] \in 0 .. MaxLimit + 1
      BY <1>3, <2>1, IncrShape DEF LimiterInv
    <2>3. Limit[RouteOf[c]] <= count[k] /\ Limit[RouteOf[c]] \in Nat
      BY <2>1, <2>2, UpCounts, LimiterAssumption
    <2>4. CASE count[k] <= spent[k]
      BY <2>2, <2>3, <2>4
    <2>5. CASE Exhausted(k)
      BY <2>2, <2>5 DEF Exhausted
    <2>6. QED BY <1>3, <2>2, <2>4, <2>5 DEF CountedIsSpent
  <1>4. LimiterInv /\ CountedIsSpent /\ [LimiterNext]_limiterVars =>
          [\A c \in Conns :
             phase[c] # "denied" /\ phase'[c] = "denied" =>
               \E r \in Routes : Limit[r] <= spent'[CounterOf[c]]]_limiterVars
    BY <1>3
  <1>5. QED BY <1>1, <1>2, <1>4, LimiterInvariant, PTL DEF LimiterSpec, DeniedWhenExhausted

-----------------------------------------------------------------------------
\* The rate limiter: the end of a window.

LEMMA LifeStep ==
  ASSUME LimiterInv, [LimiterNext]_limiterVars,
         NEW k \in Counters, ttl[k] \in 1 .. LongestWindow
  PROVE  /\ ttl'[k] = IF TimePasses THEN ttl[k] - 1 ELSE ttl[k]
         /\ IF ttl'[k] = 0 THEN count'[k] = 0 ELSE count'[k] >= count[k]
  <1> USE DEF LimiterInv
  <1>0. /\ ttl[k] \in Nat \ {0} /\ ttl[k] # Forever /\ Forever \in Nat
        /\ count[k] \in 1 .. MaxLimit + 1 /\ count[k] >= count[k] /\ MaxLimit \in Nat
    BY LimiterAssumption DEF LimiterTypeOK, Forever
  <1>1. CASE TimePasses
    BY <1>0, <1>1, Expiry
  <1>2. CASE ~TimePasses
    <2>1. ttl'[k] = ttl[k] /\ count'[k] >= count[k]
      <3>1. ASSUME NEW c \in Conns, Incr(c) \/ IncrUnanswered(c)
            PROVE  ttl'[k] = ttl[k] /\ count'[k] >= count[k]
        <4>1. RouteOf[c] \in Routes
          BY LimiterAssumption
        <4>2. Up(count[k]) >= count[k]
          BY <1>0, <4>1, UpCounts
        <4>3. ttl'[k] = ttl[k]
          BY <1>0, <3>1, CountedStep
        <4>4. count'[k] \in {count[k], Up(count[k])}
          BY <3>1, CountedStep
        <4>5. QED BY <1>0, <4>2, <4>3, <4>4
      <3>2. CASE \E c \in Conns : Expire(c)
        <4>1. PICK c \in Conns : Expire(c)
          BY <3>2
        <4>2. CounterOf[c] # k
          BY <1>0, <4>1 DEF Expire, Creators
        <4>3. ttl'[k] = ttl[k] /\ count' = count
          BY <4>1, <4>2 DEF Expire, LimiterTypeOK
        <4>4. QED BY <1>0, <4>3
      <3>3. QED BY <1>0, <1>2, <3>1, <3>2, LimiterCases
            DEF Finished, GatewayDies, limiterVars
    <2>2. QED BY <1>0, <1>2, <2>1
  <1>3. QED BY <1>1, <1>2

\* The window of a counter is never extended, whatever traffic continues and
\* whoever crashes: what Unblocks needs besides the passing of time.
THEOREM NeverRenewed == LimiterSpec => WindowRunsOut
  <1>1. LimiterInv /\ [LimiterNext]_limiterVars =>
          [\A k \in Counters :
             ttl[k] \in 1 .. LongestWindow =>
               /\ ttl'[k] = IF TimePasses THEN ttl[k] - 1 ELSE ttl[k]
               /\ IF ttl'[k] = 0 THEN count'[k] = 0 ELSE count'[k] >= count[k]]_limiterVars
    BY LifeStep
  <1>2. QED BY <1>1, LimiterInvariant, PTL DEF LimiterSpec, WindowRunsOut

\* WF(TimePasses) with its enabling condition written out: while some counter
\* has its expiry, time passes in Redis.
SomeExpiring == \E k \in Counters : ttl[k] \in 1 .. LongestWindow
ExpiryFairness == []<><<TimePasses>>_limiterVars \/ []<>~SomeExpiring

\* A counter with n ticks to live has n - 1 in the end, whatever traffic
\* continues and whoever crashes: each of the steps by which Unblocks is
\* reached, since a counter without life is gone.
THEOREM WindowAges ==
  ASSUME NEW k \in Counters, NEW n \in 1 .. LongestWindow
  PROVE  LimiterSpec /\ ExpiryFairness => ((ttl[k] = n) ~> (ttl[k] = n - 1))
  <1> DEFINE Now == ttl[k] = n
             Later == ttl[k] = n - 1
  <1>1. LimiterInv /\ [LimiterNext]_limiterVars /\ Now => Now' \/ Later'
    BY LifeStep
  <1>2. LimiterInv /\ [LimiterNext]_limiterVars /\ Now /\ <<TimePasses>>_limiterVars => Later'
    BY LifeStep
  <1>3. Now => SomeExpiring
    BY DEF SomeExpiring
  <1> HIDE DEF Now, Later
  <1>4. LimiterSpec /\ ExpiryFairness => (Now ~> Later)
    BY <1>1, <1>2, <1>3, LimiterInvariant, PTL DEF LimiterSpec, ExpiryFairness
  <1>5. QED BY <1>4 DEF Now, Later
=============================================================================
