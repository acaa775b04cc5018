---------------------------- MODULE ResponseCache ----------------------------
(***************************************************************************)
(* The response cache of Aegis (Aegis/internal/cache/cache.go): the        *)
(* outermost handler of a route with a CacheTTL, with its entries in a     *)
(* Redis that all routes share.  A GET looks its key up, is forwarded when *)
(* there is no entry, and stores the answer after the inner handlers have  *)
(* returned.  These are separate steps of concurrent requests, while the   *)
(* contents behind the routes change.  Everything inside the cache (rate   *)
(* limiter, access control, breaker, proxy) answers or refuses.  Requests  *)
(* that are no GET pass through; what they do to a content is a Change.    *)
(***************************************************************************)
EXTENDS Naturals

CONSTANTS
  Gets,        \* GET requests that may be in service at once
  Places,      \* what can be asked for: a route and a path under it
  Keys,
  KeyOf,       \* GenerateCacheKey of the path that StripPrefix leaves
  TTL,         \* CacheTTL of the route, in ticks; 0 when it has no cache
  Versions,    \* what a backend may answer with at a place
  Refused      \* an error status, of a backend or of the handlers before it

ASSUME CacheAssumption ==
  /\ KeyOf \in [Places -> Keys]
  /\ TTL \in [Places -> Nat]
  /\ Refused \notin Versions

VARIABLES
  content,  \* the version the backend of a place answers with
  entry,    \* the answer stored under a key
  left,     \* what is left of the entry's life, 0 when there is none
  req,      \* the requests in service
  age       \* history: ticks since an answer was last given by the inner
            \* handlers, whole and successful, or the TTL of its route (bound)
            \* when that is longer ago or was never

cacheVars == <<content, entry, left, req, age>>

\* The middleware is installed at all.
Cached(p) == TTL[p] > 0

None == [from |-> "none"]
Contents == [from : Places, ver : Versions]
Answers == [from : Places, ver : Versions \cup {Refused}]

Idle == [pc |-> "idle"]
Forwarded == [pc : {"forward"}, place : Places]
Answered == [pc : {"copy"}, place : Places, answer : Answers]
Storing == [pc : {"store"}, place : {p \in Places : Cached(p)}, answer : Contents]
Served == [pc : {"served"}, answer : Answers]

CacheTypeOK ==
  /\ content \in [Places -> Versions]
  /\ entry \in [Keys -> Answers \cup {None}]
  /\ left \in [Keys -> Nat]
  /\ \A k \in Keys : entry[k] = None <=> left[k] = 0
  /\ req \in [Gets -> {Idle} \cup Forwarded \cup Answered \cup Storing \cup Served]
  /\ age \in [Contents -> Nat]

CacheInit ==
  /\ content \in [Places -> Versions]
  /\ entry = [k \in Keys |-> None]
  /\ left = [k \in Keys |-> 0]
  /\ req = [r \in Gets |-> Idle]
  /\ age = [a \in Contents |-> TTL[a.from]]

At(r, pc) == req[r].pc = pc

-----------------------------------------------------------------------------
\* Bugs this code could have had; each must break a property below.

\* A hit renews the life of its entry.
BugRenew(r, p) ==
  /\ At(r, "idle") /\ Cached(p) /\ entry[KeyOf[p]] # None
  /\ req' = [req EXCEPT ![r] = [pc |-> "served", answer |-> entry[KeyOf[p]]]]
  /\ left' = [left EXCEPT ![KeyOf[p]] = TTL[p]]
  /\ UNCHANGED <<content, entry, age>>

\* The answer is stored by a deferred function, which runs in a panic, too.
BugStoreDeferred(r) ==
  LET p == req[r].place
  IN  /\ At(r, "copy") /\ Cached(p)
      /\ entry' = [entry EXCEPT ![KeyOf[p]] = req[r].answer]
      /\ left' = [left EXCEPT ![KeyOf[p]] = TTL[p]]
      /\ req' = [req EXCEPT ![r] = Idle]
      /\ UNCHANGED <<content, age>>

-----------------------------------------------------------------------------
\* Only 2xx is stored.
Successful(a) == a \in Contents

\* GET finds an entry, whichever place with this key has stored it.
Hit(r, p) ==
  /\ At(r, "idle") /\ Cached(p) /\ entry[KeyOf[p]] # None
  /\ req' = [req EXCEPT ![r] = [pc |-> "served", answer |-> entry[KeyOf[p]]]]
  /\ UNCHANGED <<content, entry, left, age>>

\* There is no cache, no entry, or GET fails, which is taken for a miss.
Miss(r, p) ==
  /\ At(r, "idle")
  /\ req' = [req EXCEPT ![r] = [pc |-> "forward", place |-> p]]
  /\ UNCHANGED <<content, entry, left, age>>

\* The inner handlers have a status: the backend's content of this moment,
\* or a refusal.
Answer(r) ==
  LET p == req[r].place
  IN  /\ At(r, "forward")
      /\ \E v \in {content[p], Refused} :
           req' = [req EXCEPT ![r] =
                     [pc |-> "copy", place |-> p, answer |-> [from |-> p, ver |-> v]]]
      /\ UNCHANGED <<content, entry, left, age>>

\* next.ServeHTTP returns: the body is complete at the client and in the recorder.
Copied(r) ==
  LET a == req[r].answer
      stores == Cached(req[r].place) /\ Successful(a)
  IN  /\ At(r, "copy")
      /\ req' = [req EXCEPT ![r] = IF stores THEN [@ EXCEPT !.pc = "store"]
                                   ELSE [pc |-> "served", answer |-> a]]
      /\ age' = IF a \in Contents THEN [age EXCEPT ![a] = 0] ELSE age
      /\ UNCHANGED <<content, entry, left>>

\* SET with the TTL of this route; its error is ignored.
Store(r) ==
  LET k == KeyOf[req[r].place]
  IN  /\ At(r, "store")
      /\ \/ /\ entry' = [entry EXCEPT ![k] = req[r].answer]
            /\ left' = [left EXCEPT ![k] = TTL[req[r].place]]
         \/ UNCHANGED <<entry, left>>
      /\ req' = [req EXCEPT ![r] = [pc |-> "served", answer |-> @.answer]]
      /\ UNCHANGED <<content, age>>

Done(r) ==
  /\ At(r, "served")
  /\ req' = [req EXCEPT ![r] = Idle]
  /\ UNCHANGED <<content, entry, left, age>>

\* The body breaks off, at either end: the proxy panics, which unwinds the
\* middleware before it can store anything.
BreakOff(r) ==
  /\ At(r, "copy")
  /\ req' = [req EXCEPT ![r] = Idle]
  /\ UNCHANGED <<content, entry, left, age>>

\* The gateway dies and is started again; Redis keeps its keys.
Crash ==
  /\ req' = [r \in Gets |-> Idle]
  /\ UNCHANGED <<content, entry, left, age>>

\* A backend, or the target of a route, changes what it answers.
Change(p) ==
  /\ \E v \in Versions \ {content[p]} : content' = [content EXCEPT ![p] = v]
  /\ UNCHANGED <<entry, left, req, age>>

\* Redis removes an entry whose time is up.  An answer does not age while it
\* is about to be stored.
CacheTick ==
  LET held == {req[r].answer : r \in {s \in Gets : At(s, "store")}}
  IN  /\ left' = [k \in Keys |-> IF left[k] > 0 THEN left[k] - 1 ELSE 0]
      /\ entry' = [k \in Keys |-> IF left[k] > 1 THEN entry[k] ELSE None]
      /\ age' = [a \in Contents |->
                   IF a \in held \/ age[a] >= TTL[a.from] THEN age[a] ELSE age[a] + 1]
      /\ UNCHANGED <<content, req>>

GoOn(r) == Answer(r) \/ Copied(r) \/ Store(r) \/ Done(r) \/ BreakOff(r)

CacheNext ==
  \/ \E r \in Gets, p \in Places : Hit(r, p) \/ Miss(r, p)
  \/ \E r \in Gets : GoOn(r)
  \/ \E p \in Places : Change(p)
  \/ Crash \/ CacheTick

CacheSpec == CacheInit /\ [][CacheNext]_cacheVars

\* Redis expires keys, and a request in service ends: the server has a write
\* timeout.  Requests may keep coming and contents may keep changing.
CacheFairness == WF_cacheVars(CacheTick) /\ \A r \in Gets : WF_cacheVars(GoOn(r))

FairCacheSpec == CacheSpec /\ CacheFairness

-----------------------------------------------------------------------------
\* Properties.

\* What a request is served from the cache was given by the inner handlers,
\* whole and successful, less than the TTL of its route ago (or was then still
\* on its way to Redis): no refusal and no broken body is passed on to
\* somebody else, and hits keep nothing alive (cache.go:83, cache.go:97).
HitsAreRecent ==
  [][\A r \in Gets :
       At(r, "idle") /\ At(r, "served")' =>
         LET a == req'[r].answer IN a \in Contents /\ age[a] < TTL[a.from]]_cacheVars

\* An answer stored late may replace a newer one.
Outdated(k) == entry[k] # None /\ entry[k].ver # content[entry[k].from]

\* The request holds an answer that may be stored and is no longer the content
\* of its place.
Holding(r) == At(r, "copy") \/ At(r, "store")
OldAnswer(r) ==
  /\ Holding(r)
  /\ req[r].answer \in Contents
  /\ req[r].answer.ver # content[req[r].answer.from]

\* While the contents do not change, no request comes by an old answer any
\* more, and an entry gets outdated, or outdated for longer, only by a request
\* that has had one and then has it no more: hits keep nothing alive, a crash or
\* a broken body stores nothing (cache.go:83-97).
NoNewOutdated ==
  [][content' = content =>
       /\ \A r \in Gets : OldAnswer(r)' => OldAnswer(r)
       /\ \A k \in Keys : Outdated(k)' =>
            \/ Outdated(k) /\ left'[k] <= left[k]
            \/ \E r \in Gets : OldAnswer(r) /\ ~OldAnswer(r)']_cacheVars

\* Once the contents change no more, outdated entries are gone in the end,
\* whatever traffic continues: after that no request is given an old version by
\* the cache.
CatchesUp ==
  (<>[][content' = content]_content) => <>[](\A k \in Keys : ~Outdated(k))
=============================================================================
