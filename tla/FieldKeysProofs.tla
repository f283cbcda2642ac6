---------------------------- MODULE FieldKeysProofs ----------------------------
(* Theorems about FieldKeys, for any requests and any number of restarts. *)
EXTENDS FieldKeys, TLAPS

\* The request has been given a key.
HasKey(r) ==
    pc[r] \in {"insert", "log", "commit", "select", "created", "shown", "garbled", "missing"}

\* Requests under way belong to this life of the process; a creation alone
\* gets to insert; whoever asks for the key finds a provider.
PlaceInv ==
    \A r \in Requests :
        /\ IF pc[r] = "idle" THEN born[r] = 0 /\ ~settled[r]
                             ELSE born[r] \in 1 .. life
        /\ pc[r] \in Active => born[r] = life
        /\ pc[r] \in {"insert", "log", "commit"} => task[r].kind = "create"
        /\ pc[r] = "obtain" => provider # NoKey
        /\ insert[r] \subseteq {r}

\* A key was made in the life in which it is used.
KeyInv ==
    /\ provider # NoKey => born[provider] = life
    /\ \A r \in Requests : HasKey(r) => key[r] \in Requests /\ born[key[r]] = born[r]

\* From when a request came to a settled provider until the process ends,
\* that provider stays; all such requests of one life have the same key.
SettledInv ==
    /\ \A r \in Requests :
          (settled[r] /\ born[r] = life) =>
              /\ provider # NoKey
              /\ \A s \in Requests : pc[s] # "make"
              /\ HasKey(r) => key[r] = provider
    /\ \A r, s \in Requests :
          (settled[r] /\ settled[s] /\ born[r] = born[s] /\ HasKey(r) /\ HasKey(s)) =>
              key[r] = key[s]

\* The rows of clients, and what was made of them.
RowsInv ==
    /\ \A c \in DOMAIN clients : pc[c] = "created" /\ clients[c] = Encrypted(c)
    /\ \A r \in Requests :
          pc[r] \in {"shown", "garbled"} =>
              LET c == task[r].client
              IN  /\ c \in DOMAIN clients
                  /\ pc[r] = "garbled" <=> clients[c].contact /\ clients[c].under # key[r]

FieldInv == TypeOK /\ PlaceInv /\ KeyInv /\ SettledInv /\ RowsInv

-----------------------------------------------------------------------------
LEMMA TableDomain == ASSUME clients \in ClientTables PROVE DOMAIN clients \subseteq Requests
BY DEF ClientTables

\* What a creation is going to store.
LEMMA EncryptedTyping ==
    ASSUME FieldInv, NEW r \in Requests, pc[r] = "commit"
    PROVE  /\ Encrypted(r) \in Client
           /\ Encrypted(r).contact <=> Encrypted(r).under # NoKey
<1>1. task[r] \in Tasks /\ task[r].kind = "create"
  BY DEF FieldInv, TypeOK, PlaceInv
<1>2. task[r].contact \in BOOLEAN
  BY <1>1 DEF Tasks
<1>3. key[r] \in Requests
  BY DEF FieldInv, KeyInv, HasKey
<1>4. QED
  BY <1>2, <1>3, NoKeyAssumption DEF Encrypted, Client, Keys

\* The table after a commit.
LEMMA CommitTable ==
    ASSUME FieldInv, NEW r \in Requests, Commit(r)
    PROVE  /\ clients' \in ClientTables
           /\ DOMAIN clients' = DOMAIN clients \union insert[r]
           /\ \A c \in DOMAIN clients' :
                 clients'[c] = IF c = r THEN Encrypted(r) ELSE clients[c]
<1> DEFINE dom == DOMAIN clients \union insert[r]
<1>1. clients' = [c \in dom |-> IF c = r THEN Encrypted(r) ELSE clients[c]]
  BY DEF Commit
<1>2. clients \in ClientTables
  BY DEF FieldInv, TypeOK
<1>3. dom \subseteq Requests /\ insert[r] \subseteq {r}
  BY <1>2, TableDomain DEF FieldInv, PlaceInv
<1>4. \A c \in DOMAIN clients : clients[c] \in Client
  BY <1>2 DEF ClientTables
<1>5. Encrypted(r) \in Client
  BY EncryptedTyping DEF Commit
<1>6. \A c \in dom : (IF c = r THEN Encrypted(r) ELSE clients[c]) \in Client
  BY <1>3, <1>4, <1>5
<1>7. clients' \in [dom -> Client]
  BY <1>1, <1>6
<1>8. QED
  BY <1>1, <1>3, <1>7 DEF ClientTables

-----------------------------------------------------------------------------
(* The invariant *)

LEMMA InitField == Init => FieldInv
<1> SUFFICES ASSUME Init PROVE FieldInv
  OBVIOUS
<1>1. clients \in [{} -> Client] /\ DOMAIN clients = {}
  BY DEF Init
<1>2. TypeOK
  <2>1. clients \in ClientTables
    BY <1>1 DEF ClientTables
  <2>2. QED
    BY <1>1, <2>1, LivesAssumption DEF Init, TypeOK, Keys
<1>3. PlaceInv /\ KeyInv /\ SettledInv /\ RowsInv
  BY <1>1 DEF Init, PlaceInv, KeyInv, SettledInv, RowsInv, HasKey, Active
<1>4. QED
  BY <1>2, <1>3 DEF FieldInv

LEMMA StepTyping == FieldInv /\ [Next]_vars => TypeOK'
<1> SUFFICES ASSUME FieldInv, [Next]_vars PROVE TypeOK'
  OBVIOUS
<1>0. TypeOK
  BY DEF FieldInv
<1> USE DEF Active, Ended, ghosts
<1>1. ASSUME NEW r \in Requests, FindProvider(r) PROVE TypeOK'
  BY <1>0, <1>1 DEF TypeOK, FindProvider, Begin
<1>2. ASSUME NEW r \in Requests, MakeProvider(r) PROVE TypeOK'
  BY <1>0, <1>2 DEF TypeOK, MakeProvider, Keys
<1>3. ASSUME NEW r \in Requests, ObtainKey(r) PROVE TypeOK'
  BY <1>0, <1>3 DEF TypeOK, ObtainKey
<1>4. ASSUME NEW r \in Requests, KeyUnavailable(r) PROVE TypeOK'
  BY <1>0, <1>4 DEF TypeOK, KeyUnavailable, Fail
<1>5. ASSUME NEW r \in Requests, InsertClient(r) PROVE TypeOK'
  BY <1>0, <1>5 DEF TypeOK, InsertClient
<1>6. ASSUME NEW r \in Requests, Log(r) PROVE TypeOK'
  BY <1>0, <1>6 DEF TypeOK, Log
<1>7. ASSUME NEW r \in Requests, Commit(r) PROVE TypeOK'
  <2>1. clients' \in ClientTables
    BY <1>7, CommitTable
  <2>2. \A c \in DOMAIN clients' : clients'[c].contact <=> clients'[c].under # NoKey
    <3>1. insert[r] \subseteq {r} /\ pc[r] = "commit"
      BY <1>7 DEF FieldInv, PlaceInv, Commit
    <3>2. Encrypted(r).contact <=> Encrypted(r).under # NoKey
      BY <3>1, EncryptedTyping
    <3>3. SUFFICES ASSUME NEW c \in DOMAIN clients'
                   PROVE  clients'[c].contact <=> clients'[c].under # NoKey
      OBVIOUS
    <3>4. CASE c = r
      <4>1. clients'[c] = Encrypted(r)
        BY <1>7, <3>4, CommitTable
      <4>2. QED
        BY <3>2, <4>1
    <3>5. CASE c # r
      <4>1. c \in DOMAIN clients /\ clients'[c] = clients[c]
        BY <1>7, <3>1, <3>5, CommitTable
      <4>2. QED
        BY <1>0, <4>1 DEF TypeOK
    <3>6. QED
      BY <3>4, <3>5
  <2>3. audit' \subseteq Requests
    BY <1>0, <1>7 DEF TypeOK, Commit
  <2>4. pc' \in [Requests -> {"idle"} \union Active \union Ended]
    BY <1>0, <1>7 DEF TypeOK, Commit
  <2>5. insert' \in [Requests -> SUBSET Requests] /\ entry' \in [Requests -> SUBSET Requests]
    BY <1>0, <1>7 DEF TypeOK, Commit
  <2>6. UNCHANGED <<setting, life, provider, task, key, born, settled>>
    BY <1>7 DEF Commit
  <2>7. QED
    BY <1>0, <2>1, <2>2, <2>3, <2>4, <2>5, <2>6 DEF TypeOK
<1>8. ASSUME NEW r \in Requests, ReadClient(r) PROVE TypeOK'
  <2>1. Outcome(r) \in Ended
    BY DEF Outcome
  <2>2. QED
    BY <1>0, <1>8, <2>1 DEF TypeOK, ReadClient
<1>9. ASSUME NEW r \in Requests, Abort(r) PROVE TypeOK'
  BY <1>0, <1>9 DEF TypeOK, Abort, Fail
<1>10. CASE Restart
  BY <1>0, <1>10, LivesAssumption DEF TypeOK, Restart, Restarted, Keys
<1>11. CASE Terminating \/ UNCHANGED vars
  BY <1>0, <1>11 DEF TypeOK, Terminating, vars
<1>12. QED
  BY <1>1, <1>2, <1>3, <1>4, <1>5, <1>6, <1>7, <1>8, <1>9, <1>10, <1>11 DEF Next

\* Unless a request gets its provider, its key or its end, what the rest of
\* the invariant speaks of is carried over action by action.
LEMMA StepPlace == FieldInv /\ [Next]_vars => PlaceInv'
<1> SUFFICES ASSUME FieldInv, [Next]_vars PROVE PlaceInv'
  OBVIOUS
<1>0. TypeOK /\ PlaceInv
  BY DEF FieldInv
<1>0a. life \in Nat /\ life >= 1
  BY <1>0, LivesAssumption DEF TypeOK
<1> USE DEF Active, ghosts
<1>1. ASSUME NEW r \in Requests, FindProvider(r) PROVE PlaceInv'
  BY <1>0, <1>0a, <1>1 DEF TypeOK, PlaceInv, FindProvider, Begin
<1>2. ASSUME NEW r \in Requests, MakeProvider(r) PROVE PlaceInv'
  BY <1>0, <1>2, NoKeyAssumption DEF TypeOK, PlaceInv, MakeProvider
<1>3. ASSUME NEW r \in Requests, ObtainKey(r) PROVE PlaceInv'
  BY <1>0, <1>3 DEF TypeOK, PlaceInv, ObtainKey
<1>4. ASSUME NEW r \in Requests, KeyUnavailable(r) PROVE PlaceInv'
  BY <1>0, <1>4 DEF TypeOK, PlaceInv, KeyUnavailable, Fail
<1>5. ASSUME NEW r \in Requests, InsertClient(r) PROVE PlaceInv'
  BY <1>0, <1>5 DEF TypeOK, PlaceInv, InsertClient
<1>6. ASSUME NEW r \in Requests, Log(r) PROVE PlaceInv'
  BY <1>0, <1>6 DEF TypeOK, PlaceInv, Log
<1>7. ASSUME NEW r \in Requests, Commit(r) PROVE PlaceInv'
  BY <1>0, <1>7 DEF TypeOK, PlaceInv, Commit
<1>8. ASSUME NEW r \in Requests, ReadClient(r) PROVE PlaceInv'
  BY <1>0, <1>8 DEF TypeOK, PlaceInv, ReadClient, Outcome
<1>9. ASSUME NEW r \in Requests, Abort(r) PROVE PlaceInv'
  BY <1>0, <1>9 DEF TypeOK, PlaceInv, Abort, Fail
<1>10. CASE Restart
  BY <1>0, <1>0a, <1>10 DEF TypeOK, PlaceInv, Restart, Restarted
<1>11. CASE Terminating \/ UNCHANGED vars
  BY <1>0, <1>11 DEF PlaceInv, Terminating, vars
<1>12. QED
  BY <1>1, <1>2, <1>3, <1>4, <1>5, <1>6, <1>7, <1>8, <1>9, <1>10, <1>11 DEF Next

LEMMA StepKey == FieldInv /\ [Next]_vars => KeyInv'
<1> SUFFICES ASSUME FieldInv, [Next]_vars PROVE KeyInv'
  OBVIOUS
<1>0. TypeOK /\ PlaceInv /\ KeyInv
  BY DEF FieldInv
<1>0a. life \in Nat /\ life >= 1
  BY <1>0, LivesAssumption DEF TypeOK
<1>0b. provider # NoKey => provider \in Requests
  BY <1>0 DEF TypeOK, Keys
<1> USE DEF Active, ghosts, HasKey
<1>1. ASSUME NEW r \in Requests, FindProvider(r) PROVE KeyInv'
  \* A request that just begins has made no key that is in use.
  <2>1. pc[r] = "idle" /\ born[r] = 0 /\ born' = [born EXCEPT ![r] = life]
    BY <1>0, <1>1 DEF PlaceInv, FindProvider, Begin
  <2>2. \A s \in Requests : HasKey(s)' => HasKey(s) /\ key[s] # r
    BY <1>0, <1>0a, <1>1, <2>1 DEF TypeOK, PlaceInv, KeyInv, FindProvider, Begin
  <2>3. QED
    BY <1>0, <1>0a, <1>0b, <1>1, <2>1, <2>2 DEF TypeOK, KeyInv, FindProvider, Begin
<1>2. ASSUME NEW r \in Requests, MakeProvider(r) PROVE KeyInv'
  BY <1>0, <1>2 DEF TypeOK, PlaceInv, KeyInv, MakeProvider
<1>3. ASSUME NEW r \in Requests, ObtainKey(r) PROVE KeyInv'
  <2>1. provider \in Requests /\ born[provider] = born[r]
    BY <1>0, <1>0b, <1>3 DEF PlaceInv, KeyInv, ObtainKey
  <2>2. QED
    BY <1>0, <1>3, <2>1 DEF TypeOK, KeyInv, ObtainKey
<1>4. ASSUME NEW r \in Requests, KeyUnavailable(r) PROVE KeyInv'
  BY <1>0, <1>4 DEF TypeOK, KeyInv, KeyUnavailable, Fail
<1>5. ASSUME NEW r \in Requests, InsertClient(r) PROVE KeyInv'
  BY <1>0, <1>5 DEF TypeOK, KeyInv, InsertClient
<1>6. ASSUME NEW r \in Requests, Log(r) PROVE KeyInv'
  BY <1>0, <1>6 DEF TypeOK, KeyInv, Log
<1>7. ASSUME NEW r \in Requests, Commit(r) PROVE KeyInv'
  BY <1>0, <1>7 DEF TypeOK, KeyInv, Commit
<1>8. ASSUME NEW r \in Requests, ReadClient(r) PROVE KeyInv'
  BY <1>0, <1>8 DEF TypeOK, KeyInv, ReadClient
<1>9. ASSUME NEW r \in Requests, Abort(r) PROVE KeyInv'
  BY <1>0, <1>9 DEF TypeOK, KeyInv, Abort, Fail
<1>10. CASE Restart
  BY <1>0, <1>10 DEF TypeOK, KeyInv, Restart, Restarted
<1>11. CASE Terminating \/ UNCHANGED vars
  BY <1>0, <1>11 DEF KeyInv, Terminating, vars
<1>12. QED
  BY <1>1, <1>2, <1>3, <1>4, <1>5, <1>6, <1>7, <1>8, <1>9, <1>10, <1>11 DEF Next

LEMMA StepSettled == FieldInv /\ [Next]_vars => SettledInv'
<1> SUFFICES ASSUME FieldInv, [Next]_vars PROVE SettledInv'
  OBVIOUS
<1>0. TypeOK /\ PlaceInv /\ SettledInv
  BY DEF FieldInv
<1>0a. life \in Nat /\ life >= 1
  BY <1>0, LivesAssumption DEF TypeOK
<1> USE DEF Active, ghosts, HasKey
<1>1. ASSUME NEW r \in Requests, FindProvider(r) PROVE SettledInv'
  BY <1>0, <1>1 DEF TypeOK, SettledInv, FindProvider, Begin
<1>2. ASSUME NEW r \in Requests, MakeProvider(r) PROVE SettledInv'
  \* There is no settled request in this life.
  <2>1. \A s \in Requests : ~(settled[s] /\ born[s] = life)
    BY <1>0, <1>2 DEF SettledInv, MakeProvider
  <2>2. \A s \in Requests : HasKey(s)' => HasKey(s)
    BY <1>0, <1>2 DEF TypeOK, MakeProvider
  <2>3. QED
    BY <1>0, <1>2, <2>1, <2>2 DEF SettledInv, MakeProvider
<1>3. ASSUME NEW r \in Requests, ObtainKey(r) PROVE SettledInv'
  <2>1. born[r] = life
    BY <1>0, <1>3 DEF PlaceInv, ObtainKey
  <2>2. key'[r] = provider /\ \A s \in Requests \ {r} : key'[s] = key[s] /\ pc'[s] = pc[s]
    BY <1>0, <1>3 DEF TypeOK, ObtainKey
  <2>3. \A s \in Requests : pc'[s] = "make" => pc[s] = "make"
    BY <1>0, <1>3 DEF TypeOK, ObtainKey
  <2>4. UNCHANGED <<provider, life, born, settled>>
    BY <1>3 DEF ObtainKey
  <2>5. QED
    BY <1>0, <2>1, <2>2, <2>3, <2>4 DEF SettledInv
<1>4. ASSUME NEW r \in Requests, KeyUnavailable(r) PROVE SettledInv'
  BY <1>0, <1>4 DEF TypeOK, SettledInv, KeyUnavailable, Fail
<1>5. ASSUME NEW r \in Requests, InsertClient(r) PROVE SettledInv'
  BY <1>0, <1>5 DEF TypeOK, SettledInv, InsertClient
<1>6. ASSUME NEW r \in Requests, Log(r) PROVE SettledInv'
  BY <1>0, <1>6 DEF TypeOK, SettledInv, Log
<1>7. ASSUME NEW r \in Requests, Commit(r) PROVE SettledInv'
  BY <1>0, <1>7 DEF TypeOK, SettledInv, Commit
<1>8. ASSUME NEW r \in Requests, ReadClient(r) PROVE SettledInv'
  BY <1>0, <1>8 DEF TypeOK, SettledInv, ReadClient, Outcome
<1>9. ASSUME NEW r \in Requests, Abort(r) PROVE SettledInv'
  BY <1>0, <1>9 DEF TypeOK, SettledInv, Abort, Fail
<1>10. CASE Restart
  <2>1. \A s \in Requests : ~(settled'[s] /\ born'[s] = life')
    BY <1>0, <1>0a, <1>10 DEF TypeOK, PlaceInv, Restart, Restarted
  <2>2. \A s \in Requests : HasKey(s)' => HasKey(s)
    BY <1>0, <1>10 DEF TypeOK, Restart, Restarted
  <2>3. QED
    BY <1>0, <1>10, <2>1, <2>2 DEF SettledInv, Restart, Restarted
<1>11. CASE Terminating \/ UNCHANGED vars
  BY <1>0, <1>11 DEF SettledInv, Terminating, vars
<1>12. QED
  BY <1>1, <1>2, <1>3, <1>4, <1>5, <1>6, <1>7, <1>8, <1>9, <1>10, <1>11 DEF Next

\* A step that leaves the table, tasks and keys of whoever has ended alone.
LEMMA RowsKept ==
    ASSUME RowsInv, UNCHANGED <<clients, task>>,
           \A c \in Requests : pc[c] \in {"created", "shown", "garbled"} =>
                                  pc'[c] = pc[c] /\ key'[c] = key[c],
           \A c \in Requests : pc'[c] \in {"shown", "garbled"} => pc'[c] = pc[c],
           clients \in ClientTables
    PROVE  RowsInv'
<1>1. \A c \in DOMAIN clients : Encrypted(c)' = Encrypted(c) /\ pc'[c] = "created"
  BY TableDomain DEF RowsInv, Encrypted
<1>2. QED
  BY <1>1 DEF RowsInv

LEMMA StepRows == FieldInv /\ [Next]_vars => RowsInv'
<1> SUFFICES ASSUME FieldInv, [Next]_vars PROVE RowsInv'
  OBVIOUS
<1>0. TypeOK /\ PlaceInv /\ RowsInv /\ clients \in ClientTables
  BY DEF FieldInv, TypeOK
<1> USE DEF Active, ghosts
<1>1. ASSUME NEW r \in Requests, FindProvider(r) PROVE RowsInv'
  BY <1>0, <1>1, RowsKept DEF TypeOK, FindProvider, Begin
<1>2. ASSUME NEW r \in Requests, MakeProvider(r) PROVE RowsInv'
  BY <1>0, <1>2, RowsKept DEF TypeOK, MakeProvider
<1>3. ASSUME NEW r \in Requests, ObtainKey(r) PROVE RowsInv'
  BY <1>0, <1>3, RowsKept DEF TypeOK, ObtainKey
<1>4. ASSUME NEW r \in Requests, KeyUnavailable(r) PROVE RowsInv'
  BY <1>0, <1>4, RowsKept DEF TypeOK, KeyUnavailable, Fail
<1>5. ASSUME NEW r \in Requests, InsertClient(r) PROVE RowsInv'
  BY <1>0, <1>5, RowsKept DEF TypeOK, InsertClient
<1>6. ASSUME NEW r \in Requests, Log(r) PROVE RowsInv'
  BY <1>0, <1>6, RowsKept DEF TypeOK, Log
<1>7. ASSUME NEW r \in Requests, Commit(r) PROVE RowsInv'
  <2>1. r \notin DOMAIN clients /\ insert[r] \subseteq {r}
    BY <1>0, <1>7 DEF RowsInv, PlaceInv, Commit
  <2>2. UNCHANGED <<task, key>>
    BY <1>7 DEF Commit
  <2>3. pc'[r] = "created" /\ \A c \in Requests \ {r} : pc'[c] = pc[c]
    BY <1>0, <1>7 DEF TypeOK, Commit
  <2>4. \A c \in DOMAIN clients : c \in DOMAIN clients' /\ clients'[c] = clients[c]
    BY <1>7, <2>1, CommitTable
  <2>5. \A c \in DOMAIN clients' : c \in DOMAIN clients \/ (c = r /\ clients'[c] = Encrypted(r))
    <3>1. DOMAIN clients' = DOMAIN clients \union insert[r]
      BY <1>7, CommitTable
    <3>2. r \in DOMAIN clients' => clients'[r] = Encrypted(r)
      BY <1>7, CommitTable
    <3>3. QED
      BY <2>1, <3>1, <3>2
  <2>6. \A c \in Requests : Encrypted(c)' = Encrypted(c)
    BY <2>2 DEF Encrypted
  <2>7. \A c \in DOMAIN clients' : pc'[c] = "created" /\ clients'[c] = Encrypted(c)'
    BY <1>0, <2>1, <2>3, <2>4, <2>5, <2>6, TableDomain DEF RowsInv
  <2>8. \A s \in Requests :
           pc'[s] \in {"shown", "garbled"} =>
               /\ task'[s].client \in DOMAIN clients'
               /\ pc'[s] = "garbled" <=> /\ clients'[task'[s].client].contact
                                         /\ clients'[task'[s].client].under # key'[s]
    BY <1>0, <2>2, <2>3, <2>4 DEF RowsInv
  <2>9. QED
    BY <2>7, <2>8 DEF RowsInv
<1>8. ASSUME NEW r \in Requests, ReadClient(r) PROVE RowsInv'
  <2>1. UNCHANGED <<clients, task, key>>
    BY <1>8 DEF ReadClient
  <2>2. pc'[r] = Outcome(r) /\ \A c \in Requests \ {r} : pc'[c] = pc[c]
    BY <1>0, <1>8 DEF TypeOK, ReadClient
  <2>3. \A c \in DOMAIN clients : pc'[c] = "created" /\ Encrypted(c)' = Encrypted(c)
    BY <1>0, <1>8, <2>1, <2>2, TableDomain DEF RowsInv, Encrypted, ReadClient
  <2>4. \A s \in Requests :
           pc'[s] \in {"shown", "garbled"} =>
               /\ task[s].client \in DOMAIN clients
               /\ pc'[s] = "garbled" <=> /\ clients[task[s].client].contact
                                         /\ clients[task[s].client].under # key[s]
    BY <1>0, <2>2 DEF RowsInv, Outcome
  <2>5. QED
    BY <1>0, <2>1, <2>3, <2>4 DEF RowsInv
<1>9. ASSUME NEW r \in Requests, Abort(r) PROVE RowsInv'
  BY <1>0, <1>9, RowsKept DEF TypeOK, Abort, Fail
<1>10. CASE Restart
  BY <1>0, <1>10, RowsKept DEF TypeOK, Restart, Restarted
<1>11. CASE Terminating \/ UNCHANGED vars
  BY <1>0, <1>11, RowsKept DEF Terminating, vars
<1>12. QED
  BY <1>1, <1>2, <1>3, <1>4, <1>5, <1>6, <1>7, <1>8, <1>9, <1>10, <1>11 DEF Next

LEMMA FieldInvariant == Spec => []FieldInv
<1>1. FieldInv /\ [Next]_vars => FieldInv'
  BY StepTyping, StepPlace, StepKey, StepSettled, StepRows DEF FieldInv
<1>2. QED
  BY InitField, <1>1, PTL DEF Spec

-----------------------------------------------------------------------------
(* Theorems *)

\* Contact fields are never stored without a key, whatever fails: encryption
\* is decided before the row is inserted.
THEOREM TypeCorrect == Spec => []TypeOK
<1>1. FieldInv => TypeOK
  BY DEF FieldInv
<1>2. QED
  BY <1>1, FieldInvariant, PTL

\* get_key_provider is safe once a provider is there and no first request is
\* still about to replace it: what was encrypted then can be decrypted by
\* every later request of that life of the process.
THEOREM SettledKeysLast == Spec => []SettledClientsReadable
<1>1. ASSUME FieldInv, NEW r \in Requests, pc[r] = "garbled",
             settled[r], settled[task[r].client], born[task[r].client] = born[r]
      PROVE  FALSE
  <2> DEFINE c == task[r].client
  <2>1. c \in DOMAIN clients /\ clients[c].contact /\ clients[c].under # key[r]
    BY <1>1 DEF FieldInv, RowsInv
  <2>2. c \in Requests
    BY <1>1, <2>1, TableDomain DEF FieldInv, TypeOK
  <2>3. clients[c] = Encrypted(c) /\ HasKey(c) /\ HasKey(r)
    BY <1>1, <2>1 DEF FieldInv, RowsInv, HasKey
  <2>4. clients[c].under = key[c]
    BY <2>1, <2>3 DEF Encrypted
  <2>5. key[c] = key[r]
    BY <1>1, <2>2, <2>3 DEF FieldInv, SettledInv
  <2>6. QED
    BY <2>1, <2>4, <2>5
<1>2. FieldInv => SettledClientsReadable
  BY <1>1 DEF SettledClientsReadable
<1>3. QED
  BY <1>2, FieldInvariant, PTL

\* EphemeralKeyProvider keeps its key nowhere else: contact fields that are
\* shown were encrypted by the same process.
THEOREM KeysDieWithProcess == Spec => []ContactsDieWithProcess
<1>1. ASSUME FieldInv, NEW r \in Requests, pc[r] = "shown", clients[task[r].client].contact
      PROVE  born[task[r].client] = born[r]
  <2> DEFINE c == task[r].client
  <2>1. c \in DOMAIN clients /\ clients[c].under = key[r]
    BY <1>1 DEF FieldInv, RowsInv
  <2>2. c \in Requests
    BY <1>1, <2>1, TableDomain DEF FieldInv, TypeOK
  <2>3. clients[c] = Encrypted(c) /\ HasKey(c) /\ HasKey(r)
    BY <1>1, <2>1 DEF FieldInv, RowsInv, HasKey
  <2>4. key[c] = key[r]
    BY <1>1, <2>1, <2>3 DEF Encrypted
  <2>5. QED
    BY <1>1, <2>2, <2>3, <2>4 DEF FieldInv, KeyInv
<1>2. FieldInv => ContactsDieWithProcess
  BY <1>1 DEF ContactsDieWithProcess
<1>3. QED
  BY <1>2, FieldInvariant, PTL
=============================================================================
