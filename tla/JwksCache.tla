------------------------------- MODULE JwksCache -------------------------------
(***************************************************************************)
(* The cache of the identity provider's signing keys: JWKSClient in        *)
(* app/auth.py, as the threads of one process use it in decode_token.      *)
(* There is no lock: requests refresh the cache independently, and a       *)
(* refresh is four steps (send, receive, store the keys, stamp the time)   *)
(* that interleave with those of others.                                   *)
(*                                                                         *)
(* Abstractions.  Time is counted in units, and one may pass anywhere: a   *)
(* refresh may take any time (timeout=5.0 bounds each phase of the HTTP    *)
(* request, not the whole of it, and the thread may lose the processor     *)
(* between any two steps).  A key set is named by the moment at which the  *)
(* provider published it, a token by its kid: what else is wrong with      *)
(* tokens is decided without the cache.  Two clients made by two first     *)
(* requests are two caches.                                                *)
(***************************************************************************)
EXTENDS Integers, FiniteSetsExt

CONSTANTS
    Requests,   \* requests with a token, numbered in the order they begin in
    Kids,       \* names of signing keys
    Histories,  \* what the provider may publish in the course of time
    NoKeys,     \* the cache of a process that has not stored any keys
    TTL,        \* cache_ttl_seconds
    MaxRefresh, \* the most time a refresh takes (a bound of the model)
    MaxNow      \* the end of time (a bound of the model)

Times == 0 .. MaxNow

ASSUME RequestsAssumption == Requests \subseteq Nat
ASSUME TimesAssumption == MaxNow \in Nat /\ TTL \in Nat /\ MaxRefresh \in Nat
ASSUME NoKeysAssumption == NoKeys \notin Int
\* The provider never publishes an empty set.
ASSUME HistoriesAssumption == Histories \subseteq [Times -> (SUBSET Kids) \ {{}}]

VARIABLES
    now,        \* time.monotonic()
    published,  \* the key set of every moment
    cache,      \* when the keys in _keys_by_kid were received
    cachedAt,   \* _cached_at
    pc,         \* where each request is
    kid,        \* the kid of its token
    retried,    \* whether its refresh is the one before giving up
    asked,      \* when it sent its refresh
    got,        \* when that was answered
    began,      \* when get_signing_key was called (history)
    oldest,     \* the oldest answer received and not stored by then (history)
    longest     \* the most time any refresh has taken so far (history)

shared == <<now, published, cache, cachedAt>>
vars == <<shared, pc, kid, retried, asked, got, began, oldest, longest>>

Refreshing == {"fetch", "store", "stamp"}
Active == Refreshing \union {"look", "return"}

Keys == IF cache = NoKeys THEN {} ELSE published[cache]

-----------------------------------------------------------------------------
\* _cached_at is 0.0 at first, on a clock that may have been started just now.
Init ==
    /\ now = 0
    /\ published \in Histories
    /\ cache = NoKeys
    /\ cachedAt \in {0, 0 - TTL - 1}
    /\ pc = [r \in Requests |-> "idle"]
    /\ kid = [r \in Requests |-> CHOOSE k \in Kids : TRUE]
    /\ retried = [r \in Requests |-> FALSE]
    /\ asked = [r \in Requests |-> 0]
    /\ got = [r \in Requests |-> 0]
    /\ began = [r \in Requests |-> 0]
    /\ oldest = [r \in Requests |-> 0]
    /\ longest = 0

\* A unit of time passes, and a refresh may come to have taken longer than
\* any before.  MaxRefresh keeps the runs small; from MaxNow on it allows all.
Tick ==
    /\ now < MaxNow
    /\ \A r \in Requests : pc[r] \in Refreshing => now < asked[r] + MaxRefresh
    /\ now' = now + 1
    /\ longest' = IF \E r \in Requests : pc[r] \in Refreshing /\ now - asked[r] = longest
                  THEN longest + 1 ELSE longest
    /\ UNCHANGED <<published, cache, cachedAt, pc, kid, retried, asked, got, began, oldest>>

Expired == now - cachedAt > TTL

InHand == {got[s] : s \in {t \in Requests : pc[t] = "store"}}

\* _refresh begins, or the request goes on with the keys that are there.
RefreshIf(r, condition, otherwise) ==
    /\ pc' = [pc EXCEPT ![r] = IF condition THEN "fetch" ELSE otherwise]
    /\ asked' = [asked EXCEPT ![r] = IF condition THEN now ELSE 0]

\* The first condition of get_signing_key.
Check(r) ==
    /\ pc[r] = "idle"
    /\ \A s \in Requests : s < r => pc[s] # "idle"
    /\ \E k \in Kids : kid' = [kid EXCEPT ![r] = k]
    /\ RefreshIf(r, Keys = {} \/ Expired, "look")
    /\ began' = [began EXCEPT ![r] = now]
    /\ oldest' = [oldest EXCEPT ![r] = Min({now} \union InHand)]
    /\ UNCHANGED <<shared, retried, got, longest>>

\* The provider answers with what it publishes at that moment.
Fetch(r) ==
    /\ pc[r] = "fetch"
    /\ got' = [got EXCEPT ![r] = now]
    /\ pc' = [pc EXCEPT ![r] = "store"]
    /\ UNCHANGED <<shared, kid, retried, asked, began, oldest, longest>>

\* Its token is accepted, or answered with a 401 or a 503.  Variables that
\* will not be read again are set back, here and in other steps.
Answer(r) ==
    /\ pc' = [pc EXCEPT ![r] = "answered"]
    /\ kid' = [kid EXCEPT ![r] = CHOOSE k \in Kids : TRUE]
    /\ retried' = [retried EXCEPT ![r] = FALSE]
    /\ asked' = [asked EXCEPT ![r] = 0]
    /\ got' = [got EXCEPT ![r] = 0]
    /\ began' = [began EXCEPT ![r] = 0]
    /\ oldest' = [oldest EXCEPT ![r] = 0]
    /\ UNCHANGED longest

\* Mutants: a failed refresh is stamped like any other; it empties the cache.
FetchFailsStamped(r) ==
    /\ pc[r] = "fetch"
    /\ cachedAt' = now
    /\ Answer(r)
    /\ UNCHANGED <<now, published, cache>>

FetchFailsEmptied(r) ==
    /\ pc[r] = "fetch"
    /\ cache' = NoKeys
    /\ Answer(r)
    /\ UNCHANGED <<now, published, cachedAt>>

\* JWKSUnavailableError, which decode_token makes a 503.
FetchFails(r) ==
    /\ pc[r] = "fetch"
    /\ Answer(r)
    /\ UNCHANGED shared

Store(r) ==
    /\ pc[r] = "store"
    /\ cache' = got[r]
    /\ got' = [got EXCEPT ![r] = 0]
    /\ pc' = [pc EXCEPT ![r] = "stamp"]
    /\ UNCHANGED <<now, published, cachedAt, kid, retried, asked, began, oldest, longest>>

\* Mutant: after every refresh the kid is looked for, and refreshed for, again.
LookAgain(r) == "look"

AfterRefresh(r) == IF retried[r] THEN "return" ELSE "look"

Stamp(r) ==
    /\ pc[r] = "stamp"
    /\ cachedAt' = now
    /\ pc' = [pc EXCEPT ![r] = AfterRefresh(r)]
    /\ asked' = [asked EXCEPT ![r] = 0]
    /\ UNCHANGED <<now, published, cache, kid, retried, got, began, oldest, longest>>

\* Mutant: an unknown kid is given up at once.
LookOnce(r) ==
    /\ pc[r] = "look"
    /\ pc' = [pc EXCEPT ![r] = "return"]
    /\ UNCHANGED <<shared, kid, retried, asked, got, began, oldest, longest>>

\* "Key rotated since our last fetch -- refresh once before giving up."
Look(r) ==
    /\ pc[r] = "look"
    /\ RefreshIf(r, kid[r] \notin Keys, "return")
    /\ retried' = [retried EXCEPT ![r] = kid[r] \notin Keys]
    /\ UNCHANGED <<shared, kid, got, began, oldest, longest>>

\* The last statement looks the kid up again, in the keys there are by now:
\* the key, or the KeyError that becomes a 401.
Accepting(r) == pc[r] = "return" /\ kid[r] \in Keys
Rejecting(r) == pc[r] = "return" /\ kid[r] \notin Keys

Return(r) ==
    /\ Accepting(r) \/ Rejecting(r)
    /\ Answer(r)
    /\ UNCHANGED shared

Step(r) == Fetch(r) \/ FetchFails(r) \/ Store(r) \/ Stamp(r) \/ Look(r) \/ Return(r)

Terminating ==
    /\ \A r \in Requests : pc[r] = "answered"
    /\ UNCHANGED vars

Next == \/ \E r \in Requests : Check(r) \/ Step(r)
        \/ Tick
        \/ Terminating

Spec == Init /\ [][Next]_vars

\* A thread goes on; what it waits for ends in an answer or a timeout.
FairSpec == Spec /\ \A r \in Requests : WF_vars(Step(r))

-----------------------------------------------------------------------------
(* Properties *)

TypeOK ==
    /\ now \in Times
    /\ published \in Histories
    /\ cache \in Times \union {NoKeys}
    /\ cachedAt \in Int /\ cachedAt <= now
    /\ pc \in [Requests -> {"idle", "answered"} \union Active]
    /\ kid \in [Requests -> Kids]
    /\ retried \in [Requests -> BOOLEAN]
    /\ {asked, got, began, oldest} \subseteq [Requests -> Times]
    /\ longest \in Nat

\* With the types: no request gets as far as looking for its key without any
\* keys, whichever refreshes fail or overlap meanwhile.
KeysAtHand ==
    /\ TypeOK
    /\ \A r \in Requests : pc[r] \in {"stamp", "look", "return"} => cache # NoKeys

\* A 401 for an unknown key is given only if the kid was not published at
\* some moment since the request began, or since the oldest answer that
\* another thread had in hand then.  A kid that is published all the while is
\* recognised, however old the cache and however many threads refresh it.
SteadyKeysAccepted ==
    \A r \in Requests :
        Rejecting(r) => \E t \in oldest[r] .. now : kid[r] \notin published[t]

\* A token is accepted only with a key that was published at most the TTL and
\* two refreshes before the request, however long the longest refresh took: a
\* withdrawn key stops being accepted, though the cache may be stamped later
\* than it was filled, and be filled with an older answer than the one it is
\* stamped for.
AcceptedKeysRecent ==
    \A r \in Requests :
        Accepting(r) => cache >= began[r] - TTL - 2 * longest

\* Every request with a token gets its answer: the key, a 401 or a 503.
RequestsAnswered == \A r \in Requests : pc[r] \in Active ~> pc[r] = "answered"

\* What get_signing_key says of racing refreshes: they are "redundant HTTPS
\* calls" and nothing else, and a rotated key is refreshed for "before giving
\* up".  A 401 is given only if the kid was not published at some moment of
\* the request itself.
PublishedKeysAccepted ==
    \A r \in Requests :
        Rejecting(r) => \E t \in began[r] .. now : kid[r] \notin published[t]
=============================================================================
