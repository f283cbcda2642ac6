------------------------------- MODULE FieldKeys -------------------------------
(***************************************************************************)
(* Clients and the key their contact fields are encrypted with:            *)
(* get_key_provider, encrypt_field and decrypt_field in app/crypto.py, as  *)
(* POST /clients and GET /clients/{id} (app/main.py) use them in one       *)
(* process, which may die and be started again.                            *)
(*                                                                         *)
(* The provider is a global of the process that the threads of concurrent  *)
(* first requests create without a lock; each thread looks at it, sets it  *)
(* and reads it back in separate steps.  The rest of a request is one      *)
(* database transaction.                                                   *)
(*                                                                         *)
(* Abstractions.  A provider and its random key are named by the request   *)
(* that made them, a client by the request that creates it.  Contact       *)
(* fields are all there or none of them.                                   *)
(***************************************************************************)
EXTENDS Integers

CONSTANTS
    Requests,  \* requests, one create or one read each
    NoKey,     \* no provider, or nothing encrypted
    Lives      \* how often the process is started (a bound of the model)

ASSUME NoKeyAssumption == NoKey \notin Requests
ASSUME LivesAssumption == Lives \in Nat \ {0}

VARIABLES
    setting,   \* settings.key_provider
    life,      \* how often the process has been started
    provider,  \* _key_provider
    clients,   \* the committed rows, as a function from their names
    audit,     \* the clients that have a committed CREATE row
    pc,        \* where each request is
    task,      \* its operation
    key,       \* the key it works with
    insert,    \* its uncommitted row of clients, as a set
    entry,     \* its uncommitted audit row, as a set
    born,      \* the life of the process it came to (history)
    settled    \* whether there was a provider then, and nobody
               \* about to make another one (history)

ghosts == <<born, settled>>
vars == <<setting, life, provider, clients, audit, pc, task, key, insert, entry, ghosts>>

Keys == Requests \union {NoKey}

\* A row without contact fields has nothing encrypted.
Client == [contact : BOOLEAN, under : Keys]
ClientTables == UNION {[cs -> Client] : cs \in SUBSET Requests}

Tasks == [kind : {"create"}, contact : BOOLEAN] \union [kind : {"read"}, client : Requests]

Active == {"make", "obtain", "insert", "log", "commit", "select"}
Ended == {"created", "shown", "garbled", "missing", "failed"}

-----------------------------------------------------------------------------
Init ==
    /\ setting \in {"ephemeral", "infisical"}
    /\ life = 1
    /\ provider = NoKey
    /\ clients = [c \in {} |-> {}]
    /\ audit = {}
    /\ pc = [r \in Requests |-> "idle"]
    /\ task \in [Requests -> Tasks]
    /\ key = [r \in Requests |-> NoKey]
    /\ insert = [r \in Requests |-> {}]
    /\ entry = [r \in Requests |-> {}]
    /\ born = [r \in Requests |-> 0]
    /\ settled = [r \in Requests |-> FALSE]

Begin(r, missing) ==
    /\ pc[r] = "idle"
    /\ pc' = [pc EXCEPT ![r] = IF missing THEN "make" ELSE "obtain"]
    /\ born' = [born EXCEPT ![r] = life]
    /\ settled' = [settled EXCEPT ![r] =
                      provider # NoKey /\ \A s \in Requests : pc[s] # "make"]
    /\ UNCHANGED <<setting, life, provider, clients, audit, task, key, insert, entry>>

\* Mutant: every request makes a provider.
AlwaysMake(r) == Begin(r, TRUE)

\* get_key_provider looks whether there is a provider ...
FindProvider(r) == Begin(r, provider = NoKey)

\* ... makes one if there was none ...
MakeProvider(r) ==
    /\ pc[r] = "make"
    /\ provider' = r
    /\ pc' = [pc EXCEPT ![r] = "obtain"]
    /\ UNCHANGED <<setting, life, clients, audit, task, key, insert, entry, ghosts>>

\* ... and returns the one that is there by now; the handler asks it for the
\* key.
ObtainKey(r) ==
    /\ pc[r] = "obtain"
    /\ setting = "ephemeral"
    /\ key' = [key EXCEPT ![r] = provider]
    /\ pc' = [pc EXCEPT ![r] = IF task[r].kind = "create" THEN "insert" ELSE "select"]
    /\ UNCHANGED <<setting, life, provider, clients, audit, task, insert, entry, ghosts>>

Fail(r) ==
    /\ pc' = [pc EXCEPT ![r] = "failed"]
    /\ insert' = [insert EXCEPT ![r] = {}]
    /\ entry' = [entry EXCEPT ![r] = {}]

\* Mutant: the fields are stored as they are if there is no key.
InClear(r) ==
    /\ pc[r] = "obtain"
    /\ setting = "infisical"
    /\ pc' = [pc EXCEPT ![r] = IF task[r].kind = "create" THEN "insert" ELSE "select"]
    /\ UNCHANGED <<setting, life, provider, clients, audit, task, key, insert, entry, ghosts>>

\* InfisicalKeyProvider raises NotImplementedError.
KeyUnavailable(r) ==
    /\ pc[r] = "obtain"
    /\ setting = "infisical"
    /\ Fail(r)
    /\ UNCHANGED <<setting, life, provider, clients, audit, task, key, ghosts>>

\* encrypt_field for each field that is given.
Encrypted(r) ==
    [contact |-> task[r].contact, under |-> IF task[r].contact THEN key[r] ELSE NoKey]

InsertClient(r) ==
    /\ pc[r] = "insert"
    /\ insert' = [insert EXCEPT ![r] = {r}]
    /\ pc' = [pc EXCEPT ![r] = "log"]
    /\ UNCHANGED <<setting, life, provider, clients, audit, task, key, entry, ghosts>>

\* record_audit_event; nothing of the contact fields goes there.
Log(r) ==
    /\ pc[r] = "log"
    /\ entry' = [entry EXCEPT ![r] = {r}]
    /\ pc' = [pc EXCEPT ![r] = "commit"]
    /\ UNCHANGED <<setting, life, provider, clients, audit, task, key, insert, ghosts>>

Commit(r) ==
    /\ pc[r] = "commit"
    /\ clients' = [c \in DOMAIN clients \union insert[r] |->
                      IF c = r THEN Encrypted(r) ELSE clients[c]]
    /\ audit' = audit \union entry[r]
    /\ insert' = [insert EXCEPT ![r] = {}]
    /\ entry' = [entry EXCEPT ![r] = {}]
    /\ pc' = [pc EXCEPT ![r] = "created"]
    /\ UNCHANGED <<setting, life, provider, task, key, ghosts>>

\* decrypt_field raises InvalidTag under any other key than the one that
\* encrypted.
Outcome(r) ==
    LET c == task[r].client
    IN  IF c \notin DOMAIN clients THEN "missing"
        ELSE IF clients[c].contact /\ clients[c].under # key[r] THEN "garbled"
        ELSE "shown"

ReadClient(r) ==
    /\ pc[r] = "select"
    /\ pc' = [pc EXCEPT ![r] = Outcome(r)]
    /\ UNCHANGED <<setting, life, provider, clients, audit, task, key, insert, entry, ghosts>>

\* get_db's rollback, when anything is raised or the connection is lost.
Abort(r) ==
    /\ pc[r] \in Active
    /\ Fail(r)
    /\ UNCHANGED <<setting, life, provider, clients, audit, task, key, ghosts>>

\* What a dead process leaves: its committed rows.
Restarted(globals) ==
    /\ life < Lives
    /\ life' = life + 1
    /\ provider' = globals
    /\ pc' = [r \in Requests |-> IF pc[r] \in Active THEN "failed" ELSE pc[r]]
    /\ insert' = [r \in Requests |-> {}]
    /\ entry' = [r \in Requests |-> {}]
    /\ UNCHANGED <<setting, clients, audit, task, key, ghosts>>

\* Mutant: the key is kept somewhere.
KeyKept == Restarted(provider)

Restart == Restarted(NoKey)

Terminating ==
    /\ \A r \in Requests : pc[r] \in Ended
    /\ UNCHANGED vars

Next ==
    \/ \E r \in Requests :
          \/ FindProvider(r) \/ MakeProvider(r) \/ ObtainKey(r) \/ KeyUnavailable(r)
          \/ InsertClient(r) \/ Log(r) \/ Commit(r) \/ ReadClient(r) \/ Abort(r)
    \/ Restart
    \/ Terminating

Spec == Init /\ [][Next]_vars

-----------------------------------------------------------------------------
(* Properties *)

\* With the types: contact fields are stored under a key or not at all.
TypeOK ==
    /\ setting \in {"ephemeral", "infisical"}
    /\ life \in 1 .. Lives
    /\ provider \in Keys
    /\ clients \in ClientTables
    /\ \A c \in DOMAIN clients : clients[c].contact <=> clients[c].under # NoKey
    /\ audit \subseteq Requests
    /\ pc \in [Requests -> {"idle"} \union Active \union Ended]
    /\ task \in [Requests -> Tasks]
    /\ key \in [Requests -> Keys]
    /\ insert \in [Requests -> SUBSET Requests]
    /\ entry \in [Requests -> SUBSET Requests]
    /\ born \in [Requests -> 0 .. Lives]
    /\ settled \in [Requests -> BOOLEAN]

\* Once a provider is there and nobody is about to make another one, what
\* requests encrypt can be decrypted by all later ones until the process
\* ends: only the first requests of a process can spoil each other's clients.
SettledClientsReadable ==
    \A r \in Requests :
        pc[r] = "garbled" =>
            \/ ~settled[r] \/ ~settled[task[r].client]
            \/ born[task[r].client] # born[r]

\* "Encrypted data does not survive a process restart": contact fields are
\* shown only by the process that has encrypted them.
ContactsDieWithProcess ==
    \A r \in Requests :
        (pc[r] = "shown" /\ clients[task[r].client].contact) =>
            born[task[r].client] = born[r]

\* What EphemeralKeyProvider says of itself: "a fresh random 256-bit key once,
\* held in memory for the process's lifetime".  Within one life of the
\* process every client can be decrypted.
OneKeyPerLife ==
    \A r \in Requests :
        pc[r] = "garbled" => born[task[r].client] # born[r]
=============================================================================
