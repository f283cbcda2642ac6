---------------------------- MODULE JwksCacheProofs ----------------------------
(* Theorems about JwksCache, for any requests, any history of the provider's *)
(* keys, any TTL and refreshes of any length.                                *)
EXTENDS JwksCache, WellFoundedInduction, TLAPS

\* Nothing lies in the future; no refresh has taken longer than the
\* longest, and each is answered after it was sent.
TimingInv ==
    /\ \A r \in Requests :
          /\ began[r] <= now /\ asked[r] <= now /\ got[r] <= now /\ oldest[r] <= now
          /\ pc[r] \in Refreshing => now <= asked[r] + longest
          /\ pc[r] = "store" => asked[r] <= got[r]
    /\ cache # NoKeys => cache <= now

\* The keys may be older than their stamp, by two refreshes at most: one that
\* was answered late for another that was sent before it.
AgeInv ==
    /\ cache # NoKeys => cache >= cachedAt - 2 * longest
    /\ \A r \in Requests :
          /\ pc[r] = "stamp" => cache >= asked[r] - longest
          /\ pc[r] \in {"look", "return"} => cachedAt >= began[r] - TTL

\* No answer older than what was in hand when a request began can be stored
\* any more; whoever refreshed, or gives a key up, sees no older one.
OrderInv ==
    \A r \in Requests :
        /\ pc[r] \in Active =>
              \A s \in Requests : pc[s] = "store" => oldest[r] <= got[s]
        /\ pc[r] = "stamp" => oldest[r] <= cache
        /\ pc[r] = "return" => kid[r] \in Keys \/ oldest[r] <= cache

JwksInv == KeysAtHand /\ TimingInv /\ AgeInv /\ OrderInv

-----------------------------------------------------------------------------
\* A set of moments has an earliest one.
LEMMA EarliestOf ==
    ASSUME NEW S, S \subseteq Nat, S # {}
    PROVE  Min(S) \in S /\ \A t \in S : Min(S) <= t
<1>1. IsWellFoundedOn(OpToRel(<, Nat), Nat)
  BY NatLessThanWellFounded
<1>2. PICK first \in S : \A t \in S : <<t, first>> \notin OpToRel(<, Nat)
  BY <1>1, WFMin
<1>3. \A t \in S : first <= t
  <2> TAKE t \in S
  <2>1. t \in Nat /\ first \in Nat
    OBVIOUS
  <2>2. ~(t < first)
    BY <1>2, <2>1 DEF OpToRel
  <2> QED BY <2>1, <2>2
<1> QED BY <1>2, <1>3 DEF Min

\* There is a key, and the default of a kid is one.
LEMMA SomeKid == ASSUME published \in Histories PROVE (CHOOSE k \in Kids : TRUE) \in Kids
<1>1. 0 \in Times
  BY TimesAssumption DEF Times
<1>2. published[0] \in (SUBSET Kids) \ {{}}
  BY <1>1, HistoriesAssumption
<1>3. \E k \in Kids : TRUE
  BY <1>2
<1> QED BY <1>3

\* What a request remembers as the oldest answer is a moment of the past, and
\* no later than any answer in hand.
LEMMA OldestInHand ==
    ASSUME TypeOK, TimingInv
    PROVE  LET o == Min({now} \union InHand)
           IN  /\ o \in Times /\ o <= now
               /\ \A s \in Requests : pc[s] = "store" => o <= got[s]
<1> DEFINE S == {now} \union InHand
<1>1. S \subseteq Times /\ S # {}
  BY DEF TypeOK, InHand
<1>2. Times \subseteq Nat
  BY TimesAssumption DEF Times
<1>3. Min(S) \in S /\ \A t \in S : Min(S) <= t
  BY <1>1, <1>2, EarliestOf
<1>4. \A s \in Requests : pc[s] = "store" => got[s] \in S
  BY DEF InHand
<1> QED BY <1>1, <1>3, <1>4

\* The steps of requests and of time.
Moving == (\E r \in Requests : Check(r) \/ Step(r)) \/ Tick

\* The longest refresh is at least as long as any that is under way.
LEMMA TickTime ==
    ASSUME KeysAtHand, TimingInv, Tick
    PROVE  /\ now \in Nat /\ now < MaxNow /\ now' = now + 1
           /\ longest' \in Nat /\ longest <= longest'
           /\ \A r \in Requests : pc[r] \in Refreshing => now + 1 <= asked[r] + longest'
           /\ UNCHANGED <<published, cache, cachedAt, pc, kid, retried, asked, got, began, oldest>>
<1> DEFINE Reached == \E r \in Requests : pc[r] \in Refreshing /\ now - asked[r] = longest
<1>1. longest' = IF Reached THEN longest + 1 ELSE longest
  BY DEF Tick
<1>2. now < MaxNow /\ now' = now + 1
      /\ UNCHANGED <<published, cache, cachedAt, pc, kid, retried, asked, got, began, oldest>>
  BY DEF Tick
<1>3. now \in Nat /\ longest \in Nat /\ \A r \in Requests : asked[r] \in Nat
  BY TimesAssumption DEF KeysAtHand, TypeOK, Times
<1>4. \A r \in Requests : pc[r] \in Refreshing =>
         now <= asked[r] + longest /\ (~Reached => now - asked[r] # longest)
  BY DEF TimingInv
<1> HIDE DEF Reached
<1>5. longest' \in Nat /\ longest <= longest'
  BY <1>1, <1>3
<1>6. ASSUME NEW r \in Requests, pc[r] \in Refreshing
      PROVE  now + 1 <= asked[r] + longest'
  <2>1. PICK n \in Nat, a \in Nat, l \in Nat : n = now /\ a = asked[r] /\ l = longest
    BY <1>3
  <2>2. n <= a + l /\ (~Reached => n - a # l)
    BY <1>4, <1>6, <2>1
  <2>3. longest' = IF Reached THEN l + 1 ELSE l
    BY <1>1, <2>1
  <2>4. CASE Reached
    BY <2>1, <2>2, <2>3, <2>4
  <2>5. CASE ~Reached
    BY <2>1, <2>2, <2>3, <2>5
  <2> QED BY <2>4, <2>5
<1> QED BY <1>2, <1>3, <1>5, <1>6

LEMMA NextMoves == ASSUME [Next]_vars PROVE Moving \/ UNCHANGED vars
BY DEF Next, Moving, Terminating

-----------------------------------------------------------------------------
LEMMA InitInv == Init => JwksInv
<1> SUFFICES ASSUME Init PROVE JwksInv
  OBVIOUS
<1>1. (CHOOSE k \in Kids : TRUE) \in Kids
  BY SomeKid DEF Init
<1>2. 0 \in Times /\ TTL \in Nat
  BY TimesAssumption DEF Times
<1>3. KeysAtHand
  BY <1>1, <1>2 DEF Init, KeysAtHand, TypeOK, Active, Refreshing
<1>4. TimingInv
  BY <1>2 DEF Init, TimingInv, Refreshing
<1>5. AgeInv
  BY DEF Init, AgeInv
<1>6. OrderInv
  BY DEF Init, OrderInv, Active, Refreshing
<1> QED BY <1>3, <1>4, <1>5, <1>6 DEF JwksInv

LEMMA TypeStep == JwksInv /\ Moving => KeysAtHand'
<1> SUFFICES ASSUME JwksInv, Moving PROVE KeysAtHand'
  OBVIOUS
<1> USE DEF KeysAtHand, TypeOK, JwksInv
<1>1. (CHOOSE k \in Kids : TRUE) \in Kids
  BY SomeKid
<1>2. 0 \in Times /\ Times \subseteq Nat /\ MaxNow \in Nat
  BY TimesAssumption DEF Times
<1>3. CASE Tick
  <2>1. now + 1 \in Times
    BY <1>2, <1>3, TickTime DEF Times
  <2> QED BY <1>2, <1>3, <2>1, TickTime
<1>4. ASSUME NEW r \in Requests, Check(r) PROVE KeysAtHand'
  <2>1. Min({now} \union InHand) \in Times
    BY OldestInHand
  <2>2. ~(Keys = {} \/ Expired) => cache # NoKeys
    BY DEF Keys
  <2> QED BY <1>2, <1>4, <2>1, <2>2 DEF Check, RefreshIf, shared, Active, Refreshing
<1>5. ASSUME NEW r \in Requests, Fetch(r) PROVE KeysAtHand'
  BY <1>5 DEF Fetch, shared, Active, Refreshing
<1>6. ASSUME NEW r \in Requests, FetchFails(r) \/ Return(r) PROVE KeysAtHand'
  <2>1. Answer(r) /\ UNCHANGED shared /\ UNCHANGED longest
    BY <1>6 DEF FetchFails, Return, Answer
  <2>2. /\ kid' \in [Requests -> Kids]
        /\ retried' \in [Requests -> BOOLEAN]
    BY <1>1, <2>1 DEF Answer
  <2>3. {asked, got, began, oldest}' \subseteq [Requests -> Times]
    BY <1>2, <2>1 DEF Answer
  <2>4. /\ pc' \in [Requests -> {"idle", "answered"} \union Active]
        /\ \A s \in Requests : pc'[s] \in {"stamp", "look", "return"} => cache # NoKeys
    BY <2>1 DEF Answer
  <2> QED BY <2>1, <2>2, <2>3, <2>4 DEF shared
<1>7. ASSUME NEW r \in Requests, Store(r) PROVE KeysAtHand'
  BY <1>2, <1>7, NoKeysAssumption DEF Store, Active, Refreshing
<1>8. ASSUME NEW r \in Requests, Stamp(r) PROVE KeysAtHand'
  BY <1>2, <1>8 DEF Stamp, AfterRefresh, Active, Refreshing
<1>9. ASSUME NEW r \in Requests, Look(r) PROVE KeysAtHand'
  BY <1>2, <1>9 DEF Look, RefreshIf, shared, Active, Refreshing
<1> QED BY <1>3, <1>4, <1>5, <1>6, <1>7, <1>8, <1>9 DEF Moving, Step

LEMMA TimingStep == JwksInv /\ Moving => TimingInv'
<1> SUFFICES ASSUME JwksInv, Moving PROVE TimingInv'
  OBVIOUS
<1>0. KeysAtHand /\ TypeOK /\ TimingInv
  BY DEF JwksInv, KeysAtHand
<1> USE DEF TimingInv
<1>1. /\ {asked, got, began, oldest} \subseteq [Requests -> Times]
      /\ pc \in [Requests -> {"idle", "answered"} \union Active]
      /\ now \in Times /\ 0 \in Times /\ Times \subseteq Nat /\ longest \in Nat
      /\ cache \in Times \union {NoKeys}
  BY <1>0, TimesAssumption DEF KeysAtHand, TypeOK, Times
<1>2. CASE Tick
  <2>1. \A r \in Requests : /\ asked[r] \in Nat /\ got[r] \in Nat
                             /\ began[r] \in Nat /\ oldest[r] \in Nat
    BY <1>1
  <2>2. \A r \in Requests : /\ began[r] <= now + 1 /\ asked[r] <= now + 1
                             /\ got[r] <= now + 1 /\ oldest[r] <= now + 1
    BY <1>0, <1>1, <2>1
  <2>3. /\ \A r \in Requests : pc[r] \in Refreshing => now + 1 <= asked[r] + longest'
        /\ now' = now + 1
        /\ UNCHANGED <<cache, pc, asked, got, began, oldest>>
    BY <1>0, <1>2, TickTime
  <2>4. cache # NoKeys => cache <= now + 1
    BY <1>0, <1>1
  <2> QED BY <1>0, <2>2, <2>3, <2>4
<1>3. ASSUME NEW r \in Requests, Check(r) PROVE TimingInv'
  <2>1. /\ Min({now} \union InHand) \in Times
        /\ Min({now} \union InHand) <= now
    BY <1>0, OldestInHand
  <2> QED BY <1>0, <1>1, <1>3, <2>1 DEF Check, RefreshIf, shared, Refreshing
<1>4. ASSUME NEW r \in Requests, Fetch(r) PROVE TimingInv'
  BY <1>0, <1>1, <1>4 DEF Fetch, shared, Refreshing
<1>5. ASSUME NEW r \in Requests, FetchFails(r) \/ Return(r) PROVE TimingInv'
  BY <1>0, <1>1, <1>5 DEF FetchFails, Return, Answer, shared, Refreshing
<1>6. ASSUME NEW r \in Requests, Store(r) PROVE TimingInv'
  BY <1>0, <1>1, <1>6 DEF Store, Refreshing
<1>7. ASSUME NEW r \in Requests, Stamp(r) PROVE TimingInv'
  BY <1>0, <1>1, <1>7 DEF Stamp, AfterRefresh, Refreshing
<1>8. ASSUME NEW r \in Requests, Look(r) PROVE TimingInv'
  BY <1>0, <1>1, <1>8 DEF Look, RefreshIf, shared, Refreshing
<1> QED BY <1>2, <1>3, <1>4, <1>5, <1>6, <1>7, <1>8 DEF Moving, Step

LEMMA AgeStep == JwksInv /\ Moving => AgeInv'
<1> SUFFICES ASSUME JwksInv, Moving PROVE AgeInv'
  OBVIOUS
<1>0. KeysAtHand /\ TimingInv /\ AgeInv
  BY DEF JwksInv
<1> USE DEF AgeInv
<1>1. /\ {asked, got, began, oldest} \subseteq [Requests -> Times]
      /\ pc \in [Requests -> {"idle", "answered"} \union Active]
      /\ now \in Times /\ Times \subseteq Nat /\ 0 \in Times
      /\ longest \in Nat /\ TTL \in Nat
      /\ cache \in Times \union {NoKeys}
      /\ cachedAt \in Int /\ cachedAt <= now
      /\ \A r \in Requests : pc[r] \in {"stamp", "look", "return"} => cache # NoKeys
  BY <1>0, TimesAssumption DEF KeysAtHand, TypeOK, Times
<1>2. CASE Tick
  <2>1. /\ UNCHANGED <<cache, cachedAt, pc, asked, began>>
        /\ longest' \in Nat /\ longest <= longest'
    BY <1>0, <1>2, TickTime
  <2>2. \A r \in Requests : asked[r] \in Nat
    BY <1>1
  <2>3. cache # NoKeys => cache >= cachedAt - 2 * longest'
    <3> SUFFICES ASSUME cache # NoKeys PROVE cache >= cachedAt - 2 * longest'
      OBVIOUS
    <3>1. cache \in Nat /\ cachedAt \in Int
      BY <1>1
    <3>2. PICK l \in Nat : l = longest
      BY <1>1
    <3>3. PICK m \in Nat : m = longest'
      BY <2>1
    <3>4. cache >= cachedAt - 2 * l /\ l <= m
      BY <1>0, <2>1, <3>2, <3>3
    <3>5. cache >= cachedAt - 2 * m
      BY <3>1, <3>4
    <3> QED BY <3>3, <3>5
  <2>4. \A r \in Requests : pc[r] = "stamp" => cache >= asked[r] - longest'
    BY <1>0, <1>1, <2>1, <2>2
  <2> QED BY <1>0, <2>1, <2>3, <2>4
<1>3. ASSUME NEW r \in Requests, Check(r) PROVE AgeInv'
  BY <1>0, <1>1, <1>3 DEF Check, RefreshIf, Expired, shared
<1>4. ASSUME NEW r \in Requests, Fetch(r) PROVE AgeInv'
  BY <1>0, <1>1, <1>4 DEF Fetch, shared
<1>5. ASSUME NEW r \in Requests, FetchFails(r) \/ Return(r) PROVE AgeInv'
  BY <1>0, <1>1, <1>5 DEF FetchFails, Return, Answer, shared
<1>6. ASSUME NEW r \in Requests, Store(r) PROVE AgeInv'
  \* An answer in hand is younger than any refresh sent before, and than any
  \* stamp, but for the time that its own refresh took.
  <2>1. got[r] \in Nat /\ got[r] >= now - longest
    BY <1>0, <1>1, <1>6 DEF Store, TimingInv, Refreshing
  <2>2. \A s \in Requests : asked[s] \in Nat /\ asked[s] <= now
    BY <1>0, <1>1 DEF TimingInv
  <2>3. cache' >= cachedAt' - 2 * longest'
    BY <1>0, <1>1, <1>6, <2>1 DEF Store
  <2>4. ASSUME NEW s \in Requests
        PROVE  /\ pc'[s] = "stamp" => cache' >= asked'[s] - longest'
               /\ pc'[s] \in {"look", "return"} => cachedAt' >= began'[s] - TTL
    BY <1>0, <1>1, <1>6, <2>1, <2>2 DEF Store
  <2> QED BY <2>3, <2>4
<1>7. ASSUME NEW r \in Requests, Stamp(r) PROVE AgeInv'
  <2>1. cache \in Nat /\ asked[r] \in Nat
    BY <1>0, <1>1, <1>7 DEF Stamp
  <2>2. cache >= asked[r] - longest /\ now <= asked[r] + longest
    BY <1>0, <1>1, <1>7 DEF Stamp, TimingInv, Refreshing
  <2>3. cache >= now - 2 * longest
    BY <1>1, <2>1, <2>2
  <2>4. \A s \in Requests : began[s] \in Nat /\ began[s] <= now
    BY <1>0, <1>1 DEF TimingInv
  <2> QED BY <1>0, <1>1, <1>7, <2>1, <2>3, <2>4 DEF Stamp, AfterRefresh
<1>8. ASSUME NEW r \in Requests, Look(r) PROVE AgeInv'
  BY <1>0, <1>1, <1>8 DEF Look, RefreshIf, shared
<1> QED BY <1>2, <1>3, <1>4, <1>5, <1>6, <1>7, <1>8 DEF Moving, Step

LEMMA OrderStep == JwksInv /\ Moving => OrderInv'
<1> SUFFICES ASSUME JwksInv, Moving PROVE OrderInv'
  OBVIOUS
<1>0. KeysAtHand /\ TypeOK /\ TimingInv /\ OrderInv
  BY DEF JwksInv, KeysAtHand
<1> USE DEF OrderInv
<1>1. /\ {asked, got, began, oldest} \subseteq [Requests -> Times]
      /\ pc \in [Requests -> {"idle", "answered"} \union Active]
      /\ kid \in [Requests -> Kids]
      /\ now \in Times /\ Times \subseteq Nat
      /\ cache \in Times \union {NoKeys}
      /\ \A r \in Requests : pc[r] \in {"stamp", "look", "return"} => cache # NoKeys
  BY <1>0, TimesAssumption DEF KeysAtHand, TypeOK, Times
<1>2. CASE Tick
  <2>1. UNCHANGED <<published, cache, pc, kid, got, oldest>>
    BY <1>0, <1>2, TickTime
  <2> QED BY <1>0, <2>1 DEF Keys
<1>3. ASSUME NEW r \in Requests, Check(r) PROVE OrderInv'
  <2> DEFINE o == Min({now} \union InHand)
  <2>1. o \in Times /\ \A s \in Requests : pc[s] = "store" => o <= got[s]
    BY <1>0, OldestInHand
  <2> HIDE DEF o
  <2>2. oldest' = [oldest EXCEPT ![r] = o]
    BY <1>3 DEF Check, o
  <2> QED BY <1>0, <1>1, <1>3, <2>1, <2>2 DEF Check, RefreshIf, shared, Keys, Active, Refreshing
<1>4. ASSUME NEW r \in Requests, Fetch(r) PROVE OrderInv'
  BY <1>0, <1>1, <1>4 DEF Fetch, TimingInv, shared, Keys, Active, Refreshing
<1>5. ASSUME NEW r \in Requests, FetchFails(r) \/ Return(r) PROVE OrderInv'
  BY <1>0, <1>1, <1>5 DEF FetchFails, Return, Answer, shared, Keys, Active, Refreshing
<1>6. ASSUME NEW r \in Requests, Store(r) PROVE OrderInv'
  BY <1>0, <1>1, <1>6 DEF Store, Keys, Active, Refreshing
<1>7. ASSUME NEW r \in Requests, Stamp(r) PROVE OrderInv'
  BY <1>0, <1>1, <1>7 DEF Stamp, AfterRefresh, Keys, Active, Refreshing
<1>8. ASSUME NEW r \in Requests, Look(r) PROVE OrderInv'
  BY <1>0, <1>1, <1>8 DEF Look, RefreshIf, shared, Keys, Active, Refreshing
<1> QED BY <1>2, <1>3, <1>4, <1>5, <1>6, <1>7, <1>8 DEF Moving, Step

LEMMA Stuttering == JwksInv /\ UNCHANGED vars => JwksInv'
BY DEF JwksInv, KeysAtHand, TypeOK, TimingInv, AgeInv, OrderInv, Keys, vars, shared

\* JwksInv is inductive.
LEMMA InvHolds == Spec => []JwksInv
<1>1. JwksInv /\ [Next]_vars => JwksInv'
  BY NextMoves, TypeStep, TimingStep, AgeStep, OrderStep, Stuttering DEF JwksInv
<1> QED BY <1>1, InitInv, PTL DEF Spec

-----------------------------------------------------------------------------
\* The types, and: no request looks for its key in a cache without any keys,
\* whichever refreshes of others fail.
THEOREM KeysAreAtHand == Spec => []KeysAtHand
<1>1. JwksInv => KeysAtHand
  BY DEF JwksInv
<1> QED BY <1>1, InvHolds, PTL

\* A kid that the provider publishes all the while is never answered with a
\* 401, however many threads refresh the cache and in whatever order.
THEOREM SteadyKeys == Spec => []SteadyKeysAccepted
<1>1. JwksInv => SteadyKeysAccepted
  <2> SUFFICES ASSUME JwksInv, NEW r \in Requests, Rejecting(r)
               PROVE  \E t \in oldest[r] .. now : kid[r] \notin published[t]
    BY DEF SteadyKeysAccepted
  <2>1. cache # NoKeys /\ kid[r] \notin published[cache]
    BY DEF JwksInv, KeysAtHand, TypeOK, Rejecting, Keys
  <2>2. cache \in Int /\ oldest[r] \in Int /\ now \in Int
    BY <2>1, TimesAssumption DEF JwksInv, KeysAtHand, TypeOK, Times
  <2>3. oldest[r] <= cache /\ cache <= now
    BY <2>1 DEF JwksInv, OrderInv, TimingInv, Rejecting
  <2>4. cache \in oldest[r] .. now
    BY <2>2, <2>3
  <2> QED BY <2>1, <2>4
<1> QED BY <1>1, InvHolds, PTL

\* A key that was withdrawn is accepted no longer than the TTL and twice the
\* time that a refresh may take.
THEOREM RecentKeys == Spec => []AcceptedKeysRecent
<1>1. JwksInv => AcceptedKeysRecent
  <2> SUFFICES ASSUME JwksInv, NEW r \in Requests, Accepting(r)
               PROVE  cache >= began[r] - TTL - 2 * longest
    BY DEF AcceptedKeysRecent
  <2>1. cache # NoKeys
    BY DEF Accepting, Keys
  <2>2. /\ cache \in Int /\ began[r] \in Int /\ cachedAt \in Int
        /\ TTL \in Int /\ longest \in Int
    BY <2>1, TimesAssumption DEF JwksInv, KeysAtHand, TypeOK, Times
  <2>3. cache >= cachedAt - 2 * longest /\ cachedAt >= began[r] - TTL
    BY <2>1 DEF JwksInv, AgeInv, Accepting
  <2> QED BY <2>2, <2>3
<1> QED BY <1>1, InvHolds, PTL
=============================================================================
