---------------------------- MODULE DocGrokService --------------------------
(* The Python service of DocGrok (src/docgrok): replicas that each cache the *)
(* registered models, the container they share, keys that are encrypted with *)
(* a key of the vault.                                                       *)
(*                                                                           *)
(* A handler has no await between its reads and writes, so that it is one    *)
(* step of its replica; only writing a model takes two operations of the     *)
(* container.  A configuration is the number of the request that wrote it.   *)
EXTENDS Naturals, FiniteSets, Sequences

CONSTANTS
    ExternalModels,
    ModelKeys,
    Replicas,
    MaxKeks,        \* bound: versions of the vault's key
    MaxWrites       \* bound: requests that write a model

VARIABLES
    stored,     \* the documents: configuration and envelope of the key
    cache,      \* _MODEL_REGISTRY of every replica
    cipher,     \* its cipher: none yet, the null cipher, or a version of the key
    kek,        \* the newest version of the vault's key
    writing,    \* the document a replica is about to write
    writes

docgrokVars == <<stored, cache, cipher, kek, writing, writes>>

NoDoc == [config |-> 0]
Uncached == [config |-> 0]
NoWrite == [model |-> "none"]
NoCipher == 0
NullCipher == MaxKeks + 1
Empty == [key |-> "", how |-> "empty"]

-----------------------------------------------------------------------------
(* Envelopes.                                                                *)

\* get_cipher: made once, without the vault when that cannot be reached
MakeCipher(r) ==
    /\ cipher[r] = NoCipher
    /\ \E c \in {NullCipher, kek} : cipher' = [cipher EXCEPT ![r] = c]
    /\ UNCHANGED <<stored, cache, kek, writing, writes>>

\* a bug: the newest version is recorded, not the one of this cipher's client
EncryptNewest(r, key) ==
    IF cipher[r] = NullCipher THEN [key |-> key, how |-> "plain"]
    ELSE [key |-> key, how |-> "envelope", wrapped |-> cipher[r], recorded |-> kek]

\* the data key is wrapped by the version of the client, which is recorded
Encrypt(r, key) ==
    IF cipher[r] = NullCipher THEN [key |-> key, how |-> "plain"]
    ELSE [key |-> key, how |-> "envelope", wrapped |-> cipher[r], recorded |-> cipher[r]]

\* what is not an envelope is taken as it is; an unwrap needs the same version
Decrypts(c, e) ==
    \/ e.how \in {"plain", "empty"}
    \/ e.how = "envelope" /\ c # NullCipher /\ e.recorded = e.wrapped

\* a key that cannot be decrypted is served as none
Decrypted(r, e) == IF Decrypts(cipher[r], e) THEN e.key ELSE ""

RotateKek ==
    /\ kek < MaxKeks
    /\ kek' = kek + 1
    /\ UNCHANGED <<stored, cache, cipher, writing, writes>>

-----------------------------------------------------------------------------
(* The registry.                                                             *)

Loaded(r, m) == IF stored[m] = NoDoc THEN Uncached
                ELSE [config |-> stored[m].config, key |-> Decrypted(r, stored[m].envelope)]
Ready(r) == cipher[r] # NoCipher /\ writing[r] = NoWrite

\* sync_cache_from_store; a store that cannot be read leaves the cache as it is
Synced(r) == {cache[r], [m \in ExternalModels |-> Loaded(r, m)]}

ListModels(r) ==
    /\ Ready(r)
    /\ \E c \in Synced(r) : cache' = [cache EXCEPT ![r] = c]
    /\ UNCHANGED <<stored, cipher, kek, writing, writes>>

\* resolve_model: the cache, and the store when the cache does not have it
Resolved(r, m) == IF cache[r][m] # Uncached THEN cache[r][m] ELSE Loaded(r, m)

\* embed, get, healthcheck and key status of a model, which only resolve it
UseModel(r, m) ==
    /\ Ready(r) /\ cache[r][m] = Uncached /\ stored[m] # NoDoc
    /\ cache' = [cache EXCEPT ![r][m] = Resolved(r, m)]
    /\ UNCHANGED <<stored, cipher, kek, writing, writes>>

\* upsert_model reads the stored envelope where the configuration has no key
Upsert(r, m, config, key, clear) ==
    LET kept == IF stored[m] = NoDoc THEN Empty ELSE stored[m].envelope
        envelope == IF key # "" THEN Encrypt(r, key) ELSE IF clear THEN Empty ELSE kept
    IN  /\ cache' = [cache EXCEPT ![r][m] = [config |-> config, key |-> key]]
        /\ writing' = [writing EXCEPT ![r] = [model |-> m, config |-> config, envelope |-> envelope]]
        /\ writes' = writes + 1
        /\ UNCHANGED <<stored, cipher, kek>>

\* register_model; the API always sends a key, which may be empty
RegisterModel(r, m, key) ==
    /\ Ready(r) /\ writes < MaxWrites
    /\ Upsert(r, m, writes + 1, key, FALSE)

RotateKey(r, m, key) ==
    /\ Ready(r) /\ writes < MaxWrites
    /\ Resolved(r, m) # Uncached
    /\ Upsert(r, m, Resolved(r, m).config, key, FALSE)

RevokeKey(r, m) ==
    /\ Ready(r) /\ writes < MaxWrites
    /\ Resolved(r, m) # Uncached
    /\ Upsert(r, m, Resolved(r, m).config, "", TRUE)

\* the document is replaced whatever was written meanwhile
Written(r) ==
    /\ writing[r] # NoWrite
    /\ stored' = [stored EXCEPT ![writing[r].model] =
                     [config |-> writing[r].config, envelope |-> writing[r].envelope]]
    /\ writing' = [writing EXCEPT ![r] = NoWrite]
    /\ UNCHANGED <<cache, cipher, kek, writes>>

DeleteModelDoc(r, m) ==
    /\ Ready(r)
    /\ Resolved(r, m) # Uncached
    /\ stored' = [stored EXCEPT ![m] = NoDoc]
    /\ cache' = [cache EXCEPT ![r][m] = Uncached]
    /\ UNCHANGED <<cipher, kek, writing, writes>>

\* init_store loads what is stored; the cipher is made again
Restart(r) ==
    /\ cipher[r] # NoCipher
    /\ cipher' = [cipher EXCEPT ![r] = NoCipher]
    /\ cache' = [cache EXCEPT ![r] = [m \in ExternalModels |-> Uncached]]
    /\ writing' = [writing EXCEPT ![r] = NoWrite]
    /\ UNCHANGED <<stored, kek, writes>>

-----------------------------------------------------------------------------

DocGrokInit ==
    /\ stored = [m \in ExternalModels |-> NoDoc]
    /\ cache = [r \in Replicas |-> [m \in ExternalModels |-> Uncached]]
    /\ cipher = [r \in Replicas |-> NoCipher]
    /\ kek = 1
    /\ writing = [r \in Replicas |-> NoWrite]
    /\ writes = 0

DocGrokNext ==
    \/ RotateKek
    \/ \E r \in Replicas :
           \/ MakeCipher(r) \/ ListModels(r) \/ Written(r) \/ Restart(r)
           \/ \E m \in ExternalModels :
                  \/ UseModel(r, m) \/ RevokeKey(r, m) \/ DeleteModelDoc(r, m)
                  \/ \E key \in ModelKeys : RotateKey(r, m, key)
                  \/ \E key \in ModelKeys \cup {""} : RegisterModel(r, m, key)

DocGrokSpec == DocGrokInit /\ [][DocGrokNext]_docgrokVars

-----------------------------------------------------------------------------

\* "Old envelopes still decrypt with the old version": a replica with access to
\* the vault reads every stored key, and reads the key that was written, whatever
\* version of the vault's key it or the writer started with.
KeysReadable ==
    \A m \in ExternalModels : \A r \in Replicas :
        stored[m] # NoDoc /\ cipher[r] \notin {NoCipher, NullCipher}
        => Decrypted(r, stored[m].envelope) = stored[m].envelope.key
=============================================================================
