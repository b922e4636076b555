------------------------ MODULE DbAuthorizer_proofs ------------------------
(***************************************************************************)
(* How long a revoked permission is good for, for any number of requests,  *)
(* of keys and of containers, and any times.                               *)
(***************************************************************************)
EXTENDS DbAuthorizer, TLAPS

\* A request that does something does it for a pair, and one that is on its way to
\* the cache has been so for MaxLag at most.
OnTheWay == \A r \in Request :
  /\ request[r].pc # "idle" => request[r].pair \in Pair
  /\ request[r].pc \in {"store", "keep"} =>
       /\ lastHeld[request[r].pair] # -1
       /\ request[r].since <= lastHeld[request[r].pair]
       /\ now <= request[r].since + MaxLag

\* The history follows the table.
History == \A p \in Pair :
  /\ lastHeld[p] <= now
  /\ p \in permissions => lastHeld[p] = now

DbInv == DbTypeOK /\ OnTheWay /\ History /\ CachedWasHeld

LEMMA DbInitHolds == DbInit => DbInv
  <1> USE TimeAssumption
  <1>1. ASSUME DbInit PROVE DbTypeOK
    BY <1>1 DEF DbInit, DbTypeOK, DbPc
  <1>2. ASSUME DbInit PROVE OnTheWay /\ History /\ CachedWasHeld
    BY <1>2 DEF DbInit, OnTheWay, History, CachedWasHeld
  <1>3. QED  BY <1>1, <1>2 DEF DbInv

LEMMA DbNextType ==
  ASSUME DbInv, [DbNext]_dbVars
  PROVE  DbTypeOK'
  <1> USE TimeAssumption DEF DbInv, DbTypeOK
  <1>1. CASE \E r \in Request, call \in {"isAccessible", "authorize"}, p \in Pair :
               Begin(r, call, p)
    BY <1>1 DEF Begin, DbPc
  <1>2. CASE \E r \in Request : LookUp(r)
    <2>1. PICK r \in Request : LookUp(r)
      BY <1>2
    <2>2. request' \in [Request -> [call : {"isAccessible", "authorize"},
                                    pair : Pair \cup {None}, pc : DbPc, since : Nat]]
      BY <2>1 DEF LookUp, Proceed, DbPc
    <2>3. cachePermissions' \in [Pair -> Nat \cup {None}]
      BY <2>1 DEF LookUp
    <2>4. QED  BY <2>1, <2>2, <2>3 DEF LookUp
  <1>3. CASE \E r \in Request : Query(r)
    <2>1. PICK r \in Request : Query(r)
      BY <1>3
    <2>2. Missing(r) \in DbPc /\ "failed" \in DbPc /\ "store" \in DbPc
      BY DEF Missing, DbPc
    <2>3. request' \in [Request -> [call : {"isAccessible", "authorize"},
                                    pair : Pair \cup {None}, pc : DbPc, since : Nat]]
      BY <2>1, <2>2 DEF Query, Proceed
    <2>4. QED  BY <2>1, <2>3 DEF Query
  <1>4. CASE \E r \in Request : Store(r)
    <2>1. PICK r \in Request : Store(r)
      BY <1>4
    <2>2. request' \in [Request -> [call : {"isAccessible", "authorize"},
                                    pair : Pair \cup {None}, pc : DbPc, since : Nat]]
      BY <2>1 DEF Store, Proceed, DbPc
    <2>3. cachePermissions' \in [Pair -> Nat \cup {None}]
      BY <2>1 DEF Store
    <2>4. QED  BY <2>1, <2>2, <2>3 DEF Store
  <1>5. CASE \E r \in Request : Insert(r)
    <2>1. PICK r \in Request : Insert(r)
      BY <1>5
    <2>2. request[r].pair \in Pair
      BY <2>1 DEF Insert, OnTheWay
    <2>3. request' \in [Request -> [call : {"isAccessible", "authorize"},
                                    pair : Pair \cup {None}, pc : DbPc, since : Nat]]
      BY <2>1 DEF Insert, Proceed, DbPc
    <2>4. QED  BY <2>1, <2>2, <2>3 DEF Insert
  <1>6. CASE \E r \in Request : Return(r)
    <2>1. PICK r \in Request : Return(r)
      BY <1>6
    <2>2. "idle" \in DbPc
      BY DEF DbPc
    <2>3. request' \in [Request -> [call : {"isAccessible", "authorize"},
                                    pair : Pair \cup {None}, pc : DbPc, since : Nat]]
      BY <2>1, <2>2, ZenonT(60) DEF Return
    <2>4. QED  BY <2>1, <2>3 DEF Return
  <1>7. CASE \E p \in Pair : Revoke(p)
    BY <1>7 DEF Revoke
  <1>8. CASE Tick
    BY <1>8 DEF Tick
  <1>9. CASE UNCHANGED dbVars
    BY <1>9 DEF dbVars
  <1>10. QED  BY <1>1, <1>2, <1>3, <1>4, <1>5, <1>6, <1>7, <1>8, <1>9 DEF DbNext

\* What any step does to the history.
LEMMA HistoryGrows ==
  ASSUME DbInv, [DbNext]_dbVars
  PROVE  /\ History'
         /\ \A p \in Pair : /\ lastHeld'[p] >= lastHeld[p]
                            /\ lastHeld[p] # -1 => lastHeld'[p] # -1
  <1> USE DEF DbInv, DbTypeOK, History
  <1>1. CASE \E r \in Request : Insert(r)
    <2>1. PICK r \in Request : Insert(r)
      BY <1>1
    <2>2. request[r].pair \in Pair
      BY <2>1 DEF Insert, OnTheWay
    <2>3. QED  BY <2>1, <2>2 DEF Insert
  <1>2. CASE Tick
    BY <1>2 DEF Tick
  <1>3. CASE \E p \in Pair : Revoke(p)
    BY <1>3 DEF Revoke
  <1>4. CASE UNCHANGED <<permissions, now, lastHeld>>
    BY <1>4
  <1>5. QED  BY <1>1, <1>2, <1>3, <1>4 DEF DbNext, Begin, LookUp, Query, Store, Return,
                                            dbVars

LEMMA DbNextHolds ==
  ASSUME DbInv, [DbNext]_dbVars
  PROVE  DbInv'
  <1>1. DbTypeOK' /\ History'
    BY DbNextType, HistoryGrows
  <1>2. \A p \in Pair : lastHeld'[p] >= lastHeld[p] /\ (lastHeld[p] # -1 => lastHeld'[p] # -1)
    BY HistoryGrows
  <1> USE TimeAssumption DEF DbInv, DbTypeOK
  <1>3. OnTheWay'
    <2>1. CASE \E r \in Request, call \in {"isAccessible", "authorize"}, p \in Pair :
                 Begin(r, call, p)
      BY <2>1 DEF Begin, OnTheWay
    <2>2. CASE \E r \in Request : LookUp(r)
      BY <2>2 DEF LookUp, Proceed, OnTheWay
    <2>3. CASE \E r \in Request : Query(r)
      <3>1. PICK r \in Request : Query(r)
        BY <2>3
      <3>2. request[r].pair \in Pair
        BY <3>1 DEF Query, OnTheWay
      <3>3. CASE /\ request[r].pair \in permissions
                 /\ request' = [request EXCEPT ![r].pc = "store", ![r].since = now]
        BY <3>1, <3>2, <3>3 DEF Query, OnTheWay, History
      <3>4. CASE Proceed(r, Missing(r)) \/ Proceed(r, "failed")
        BY <3>1, <3>4 DEF Query, Proceed, Missing, OnTheWay
      <3>5. QED  BY <3>1, <3>3, <3>4 DEF Query
    <2>4. CASE \E r \in Request : Store(r)
      BY <2>4 DEF Store, Proceed, OnTheWay
    <2>5. CASE \E r \in Request : Insert(r)
      <3>1. PICK r \in Request : Insert(r)
        BY <2>5
      <3>2. request[r].pair \in Pair
        BY <3>1 DEF Insert, OnTheWay
      <3>3. ASSUME NEW q \in Request, q # r
            PROVE  request'[q] = request[q]
        BY <3>1, <3>3 DEF Insert, Proceed
      <3>4. now' = now
        BY <3>1 DEF Insert
      <3>5. /\ request'[r].pair = request[r].pair
            /\ request'[r].pc = "keep" =>
                 request'[r].since = now /\ lastHeld'[request[r].pair] = now
            /\ request'[r].pc \in {"keep", "false"}
        BY <3>1, <3>2 DEF Insert, Proceed
      <3>6. ASSUME NEW q \in Request, q # r, request[q].pc \in {"store", "keep"}
            PROVE  /\ lastHeld'[request[q].pair] # -1
                   /\ request[q].since <= lastHeld'[request[q].pair]
        BY <1>1, <1>2, <3>6 DEF OnTheWay
      <3>7. QED  BY <3>2, <3>3, <3>4, <3>5, <3>6 DEF OnTheWay
    <2>6. CASE \E r \in Request : Return(r)
      BY <2>6 DEF Return, OnTheWay
    <2>7. CASE \E p \in Pair : Revoke(p)
      BY <2>7 DEF Revoke, OnTheWay
    <2>8. CASE Tick
      BY <1>1, <1>2, <2>8 DEF Tick, OnTheWay
    <2>9. CASE UNCHANGED dbVars
      BY <2>9 DEF dbVars, OnTheWay
    <2>10. QED  BY <2>1, <2>2, <2>3, <2>4, <2>5, <2>6, <2>7, <2>8, <2>9 DEF DbNext
  <1>4. CachedWasHeld'
    <2>1. CASE \E r \in Request : LookUp(r)
      BY <2>1 DEF LookUp, CachedWasHeld
    <2>2. CASE \E r \in Request : Store(r)
      BY <2>2 DEF Store, CachedWasHeld, OnTheWay
    <2>3. CASE UNCHANGED cachePermissions
      BY <1>1, <1>2, <2>3 DEF CachedWasHeld
    <2>4. QED  BY <2>1, <2>2, <2>3 DEF DbNext, Begin, Query, Insert, Return, Revoke,
                                        Tick, dbVars
  <1>5. QED  BY <1>1, <1>3, <1>4

\* The inductive invariant: what is cached, and what is on its way to the cache, was
\* in the table when it was read or made.
THEOREM DbInvariance == DbSpec => []DbInv
  <1>1. DbInit => DbInv
    BY DbInitHolds
  <1>2. DbInv /\ [DbNext]_dbVars => DbInv'
    BY DbNextHolds
  <1>3. QED  BY <1>1, <1>2, PTL DEF DbSpec

\* Whoever the authorizer lets in (isAccessibleContainer and isValidWorkApiKey of
\* DbAuthorizer.java) had the permission Expiry + MaxLag ago at most.
THEOREM RevokedInTime == DbSpec => LetInSoonAfter
  <1> DEFINE LetIn == \A r \in Request :
        request'[r].pc = "true" /\ request[r].pc # "true" =>
          /\ lastHeld[request[r].pair] # -1
          /\ now - lastHeld[request[r].pair] <= Expiry + MaxLag
  <1>1. ASSUME DbInv, [DbNext]_dbVars PROVE [LetIn]_dbVars
    <2> USE <1>1, TimeAssumption DEF DbInv, DbTypeOK
    <2>1. SUFFICES ASSUME NEW r \in Request, request'[r].pc = "true", request[r].pc # "true"
                   PROVE  /\ lastHeld[request[r].pair] # -1
                          /\ now - lastHeld[request[r].pair] <= Expiry + MaxLag
      OBVIOUS
    <2>2. LookUp(r) \/ Store(r)
      <3>1. PICK q \in Request :
              \/ \E call \in {"isAccessible", "authorize"}, p \in Pair : Begin(q, call, p)
              \/ LookUp(q) \/ Query(q)
              \/ Store(q) \/ Insert(q)
              \/ Return(q)
        BY <2>1 DEF DbNext, Revoke, Tick, dbVars
      <3>2. q = r
        BY <2>1, <3>1 DEF Begin, LookUp, Query, Store, Insert, Return, Proceed
      <3>3. ~ \E call \in {"isAccessible", "authorize"}, p \in Pair : Begin(r, call, p)
        BY <2>1 DEF Begin
      <3>4. ~ Query(r)
        BY <2>1 DEF Query, Proceed, Missing
      <3>5. ~ Insert(r) /\ ~ Return(r)
        BY <2>1 DEF Insert, Return, Proceed
      <3>6. QED  BY <3>1, <3>2, <3>3, <3>4, <3>5
    <2>3. request[r].pair \in Pair
      BY <2>2 DEF OnTheWay, LookUp, Store
    <2>4. CASE LookUp(r)
      <3>1. Valid(request[r].pair)
        BY <2>1, <2>4 DEF LookUp, Proceed
      <3>2. QED  BY <2>3, <3>1 DEF Valid, CachedWasHeld
    <2>5. CASE Store(r)
      <3>1. /\ lastHeld[request[r].pair] # -1
            /\ request[r].since <= lastHeld[request[r].pair]
            /\ now <= request[r].since + MaxLag
        BY <2>5 DEF Store, OnTheWay
      <3>2. QED  BY <2>3, <3>1
    <2>6. QED  BY <2>2, <2>4, <2>5
  <1>2. QED  BY <1>1, DbInvariance, PTL DEF DbSpec, LetInSoonAfter
=============================================================================
