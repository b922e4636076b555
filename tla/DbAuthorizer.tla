---------------------------- MODULE DbAuthorizer ----------------------------
(***************************************************************************)
(* The authorizer that asks a database which API key may use which         *)
(* container, and caches the positive answers for a time.                  *)
(*                                                                         *)
(* Each step on the cache or on the database is synchronized, a request is *)
(* not: between the answer of the database and its entry in the cache other*)
(* requests are served, and the administrator revokes permissions.  What is*)
(* said here of the permissions holds of the valid API keys and their cache*)
(* as well (isValidWorkApiKey).                                            *)
(***************************************************************************)
EXTENDS Integers

CONSTANTS Request,      \* the requests, each with a thread of its own
          Pair,         \* pairs of an API key and a container
          Expiry,       \* for how long an entry of the cache is good
          MaxLag,       \* bound: how long a request is on its way to the cache
          MaxTime,      \* bound: the time at which the clock stops
          None          \* no entry in the cache, and no pair

ASSUME TimeAssumption ==
  /\ Expiry \in Nat /\ MaxLag \in Nat /\ MaxTime \in Nat
  /\ None \notin Nat \cup Pair

VARIABLES request,      \* what each request is about, and how far it is
          cachePermissions,     \* when each entry was made
          permissions,  \* the rows of the table
          now,          \* the clock
          lastHeld      \* history: when there was last a row for each pair

dbVars == <<request, cachePermissions, permissions, now, lastHeld>>

DbPc == {"idle", "lookup", "query", "store", "insert", "keep", "true", "false", "failed"}

DbTypeOK ==
  /\ request \in [Request -> [call : {"isAccessible", "authorize"},
                              pair : Pair \cup {None}, pc : DbPc, since : Nat]]
  /\ cachePermissions \in [Pair -> Nat \cup {None}]
  /\ permissions \subseteq Pair
  /\ now \in Nat
  /\ lastHeld \in [Pair -> Nat \cup {-1}]

DbInit ==
  /\ request = [r \in Request |->
                  [call |-> "isAccessible", pair |-> None, pc |-> "idle", since |-> 0]]
  /\ cachePermissions = [p \in Pair |-> None]
  /\ permissions \in SUBSET Pair
  /\ now = 0
  /\ lastHeld = [p \in Pair |-> IF p \in permissions THEN 0 ELSE -1]

Proceed(r, pc) == request' = [request EXCEPT ![r].pc = pc]
-----------------------------------------------------------------------------
\* checkContainerAccessibility, and initContainer, which authorizes the key that
\* asked for a container that is new.
Begin(r, call, p) ==
  /\ request[r].pc = "idle"
  /\ call = "authorize" =>
       /\ lastHeld[p] = -1
       /\ \A q \in Request : request[q].pair # p
  /\ request' = [request EXCEPT ![r] =
                   [call |-> call, pair |-> p, pc |-> "lookup", since |-> now]]
  /\ UNCHANGED <<cachePermissions, permissions, now, lastHeld>>

\* Mutant: an entry is as good as it was however old it is.
EverValid(p) == cachePermissions[p] # None

\* isValidInCache: an entry that is older than Expiry is removed.
Valid(p) ==
  /\ cachePermissions[p] # None
  /\ now - cachePermissions[p] <= Expiry

LookUp(r) ==
  LET p == request[r].pair
  IN  /\ request[r].pc = "lookup"
      /\ Proceed(r, IF Valid(p) THEN "true" ELSE "query")
      /\ cachePermissions' =
           IF Valid(p) THEN cachePermissions ELSE [cachePermissions EXCEPT ![p] = None]
      /\ UNCHANGED <<permissions, now, lastHeld>>

\* What a request does with a pair that the database has no row for: the answer is
\* no, or the row is made.
Missing(r) == IF request[r].call = "authorize" THEN "insert" ELSE "false"

\* executeQuery.  When all tries fail the result is null, which counts as no row;
\* when another request reopens the connection meanwhile, reading it is an error.
Query(r) ==
  /\ request[r].pc = "query"
  /\ \/ /\ request[r].pair \in permissions
        /\ request' = [request EXCEPT ![r].pc = "store", ![r].since = now]
     \/ request[r].pair \notin permissions /\ Proceed(r, Missing(r))
     \/ Proceed(r, Missing(r))
     \/ Proceed(r, "failed")
  /\ UNCHANGED <<cachePermissions, permissions, now, lastHeld>>

\* insertInCache, of what the database has answered or has been told.
Store(r) ==
  /\ request[r].pc \in {"store", "keep"}
  /\ cachePermissions' = [cachePermissions EXCEPT ![request[r].pair] = now]
  /\ Proceed(r, "true")
  /\ UNCHANGED <<permissions, now, lastHeld>>

\* authorizeContainer when the pair is not accessible: the row is made, or all
\* tries fail and authorizeContainer returns as if it had been made.  A try can fail
\* although it has made the row, if its reply is lost.
Insert(r) ==
  LET p == request[r].pair
  IN  /\ request[r].pc = "insert"
      /\ \/ /\ permissions' = permissions \cup {p}
            /\ lastHeld' = [lastHeld EXCEPT ![p] = now]
            /\ \/ request' = [request EXCEPT ![r].pc = "keep", ![r].since = now]
               \/ Proceed(r, "false")
         \/ /\ Proceed(r, "false")
            /\ UNCHANGED <<permissions, lastHeld>>
      /\ UNCHANGED <<cachePermissions, now>>

\* The administrator of the database revokes a permission.
Revoke(p) ==
  /\ p \in permissions
  /\ permissions' = permissions \ {p}
  /\ UNCHANGED <<request, cachePermissions, now, lastHeld>>

\* A request is not on its way from the database to the cache for longer than
\* MaxLag.
Tick ==
  /\ now < MaxTime
  /\ \A r \in Request : request[r].pc \in {"store", "keep"} =>
       now < request[r].since + MaxLag
  /\ now' = now + 1
  /\ lastHeld' = [p \in Pair |-> IF p \in permissions THEN now + 1 ELSE lastHeld[p]]
  /\ UNCHANGED <<request, cachePermissions, permissions>>

\* The answer goes to the caller, and the thread serves another request.
Return(r) ==
  /\ request[r].pc \in {"true", "false", "failed"}
  /\ request' = [request EXCEPT ![r].pc = "idle", ![r].pair = None]
  /\ UNCHANGED <<cachePermissions, permissions, now, lastHeld>>

DbNext ==
  \/ \E r \in Request :
       \/ \E call \in {"isAccessible", "authorize"}, p \in Pair : Begin(r, call, p)
       \/ LookUp(r)
       \/ Query(r)
       \/ Store(r)
       \/ Insert(r)
       \/ Return(r)
  \/ \E p \in Pair : Revoke(p)
  \/ Tick

DbSpec == DbInit /\ [][DbNext]_dbVars
-----------------------------------------------------------------------------
\* Whoever is let in by the cache or the database had the permission not long ago:
\* what is revoked is good for Expiry, and for as long as a request was on its way
\* to the cache, and then no more, whatever the requests do in between.
LetInSoonAfter == [][\A r \in Request :
  request'[r].pc = "true" /\ request[r].pc # "true" =>
    /\ lastHeld[request[r].pair] # -1
    /\ now - lastHeld[request[r].pair] <= Expiry + MaxLag]_dbVars

\* Entries of the cache are of permissions that there were, MaxLag before at most.
CachedWasHeld == \A p \in Pair :
  cachePermissions[p] # None =>
    /\ lastHeld[p] # -1
    /\ cachePermissions[p] \in 0 .. lastHeld[p] + MaxLag
=============================================================================
