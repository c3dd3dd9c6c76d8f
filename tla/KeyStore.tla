------------------------------ MODULE KeyStore ------------------------------
(***************************************************************************)
(* Keys, contexts and the two byte ciphers of src/security/crypto.c.       *)
(*                                                                         *)
(* A crypto_key_t is named by the order in which it was generated: the     *)
(* heap never hands an address out twice.  For the same reason what a      *)
(* destroyed key pointed to stays readable, and a context of it usable.    *)
(***************************************************************************)
EXTENDS Integers, FiniteSets

CONSTANTS
    MAX_CRYPTO_KEYS,   \* slots of key_store (16)
    ByteMod,           \* values of a byte (256)
    IdMod,             \* ids are uint32_t: 2^32
    MinXor, MaxXor,    \* bounds on the length of an XOR key (4, 32)
    Requests,          \* the lengths callers ask for
    MessageLength,     \* bytes of a message
    XorByte(_, _),         \* the operator ^ on bytes
    MaxIssued          \* bound on the keys generated

ASSUME KeyStoreAssumption ==
    /\ MAX_CRYPTO_KEYS \in Nat /\ MaxIssued \in Nat
    /\ ByteMod \in Nat \ {0} /\ IdMod \in Nat \ {0, 1}
    /\ MinXor \in Nat \ {0} /\ MaxXor \in Nat /\ MinXor <= MaxXor
    /\ Requests \subseteq Nat
    /\ MessageLength \in Nat
    /\ \A a, b \in 0 .. ByteMod - 1 : XorByte(XorByte(a, b), b) = a

Algorithms == {"XOR", "CAESAR", "AES", "RSA", "SHA", "NONE"}
NULL   == 0
Handle == 1 .. MaxIssued
Slot   == 0 .. MAX_CRYPTO_KEYS - 1

VARIABLES
    key_store, key_count, next_key_id,
    key,        \* the keys generated: id, type, length, key_data
    contexts,   \* the contexts in use: algorithm, key
    live,       \* history: the keys not yet destroyed
    entered     \* history: those the store had room for, since crypto_init

keyVars == <<key_store, key_count, next_key_id, key, contexts, live, entered>>
store == <<key_store, key_count, next_key_id>>

Issued == DOMAIN key

-----------------------------------------------------------------------------
(* The keys handed out before stay with their holders.                     *)
crypto_init ==
    /\ key_store' = [s \in Slot |-> NULL]
    /\ key_count' = 0
    /\ entered' = {}
    /\ UNCHANGED <<next_key_id, key, contexts, live>>

(* The length a key gets: clamped for XOR, one byte for CAESAR.            *)
KeyLength(algorithm, length) ==
    CASE algorithm = "XOR" -> IF length < MinXor THEN MinXor
                              ELSE IF length > MaxXor THEN MaxXor ELSE length
      [] algorithm = "CAESAR" -> 1
      [] OTHER -> length

KeyByte(i, id) == (i * 29 + id * 13) % ByteMod

(* The key is handed out whether or not the store has room for it.         *)
Enter(h) ==
    \/ /\ key_count < MAX_CRYPTO_KEYS
       /\ key_store' = [key_store EXCEPT ![key_count] = h]
       /\ key_count' = key_count + 1
       /\ entered' = entered \cup {h}
    \/ /\ key_count >= MAX_CRYPTO_KEYS
       /\ UNCHANGED <<key_store, key_count, entered>>

crypto_generate_key(algorithm, length) ==
    LET h == Cardinality(Issued) + 1
        n == KeyLength(algorithm, length)
        k == [id |-> next_key_id, type |-> algorithm, length |-> n,
              key_data |-> [i \in 0 .. n - 1 |-> KeyByte(i, next_key_id)]]
    IN /\ h <= MaxIssued
       /\ algorithm \notin {"NONE", "AES", "RSA"}
       /\ key' = [g \in Issued \cup {h} |-> IF g = h THEN k ELSE key[g]]
       /\ next_key_id' = (next_key_id + 1) % IdMod
       /\ live' = live \cup {h}
       /\ Enter(h)
       /\ UNCHANGED contexts

(* A fault in crypto_destroy_key: the last key is not moved.               *)
DestroyLeavesHole(h) ==
    /\ h \in live
    /\ live' = live \ {h}
    /\ entered' = entered \ {h}
    /\ \/ \E i \in 0 .. key_count - 1 :
             /\ key_store[i] = h
             /\ key_store' = [key_store EXCEPT ![i] = NULL]
             /\ key_count' = key_count - 1
       \/ /\ \A i \in 0 .. key_count - 1 : key_store[i] # h
          /\ UNCHANGED <<key_store, key_count>>
    /\ UNCHANGED <<next_key_id, key, contexts>>

(* The last key moves into the slot of the one destroyed.  A key that is   *)
(* not in the store is freed all the same.                                 *)
crypto_destroy_key(h) ==
    /\ h \in live
    /\ live' = live \ {h}
    /\ entered' = entered \ {h}
    /\ \/ \E i \in 0 .. key_count - 1 :
             /\ key_store[i] = h
             /\ \A j \in 0 .. i - 1 : key_store[j] # h
             /\ key_store' = [key_store EXCEPT ![i] = key_store[key_count - 1],
                                               ![key_count - 1] = NULL]
             /\ key_count' = key_count - 1
       \/ /\ \A i \in 0 .. key_count - 1 : key_store[i] # h
          /\ UNCHANGED <<key_store, key_count>>
    /\ UNCHANGED <<next_key_id, key, contexts>>

(* The context keeps a pointer to the key, which may be destroyed later.   *)
crypto_create_context(algorithm, h) ==
    /\ h \in live
    /\ key[h].type = algorithm
    /\ contexts' = contexts \cup {[algorithm |-> algorithm, key |-> h]}
    /\ UNCHANGED <<store, key, live, entered>>

crypto_destroy_context(ctx) ==
    /\ ctx \in contexts
    /\ contexts' = contexts \ {ctx}
    /\ UNCHANGED <<store, key, live, entered>>

-----------------------------------------------------------------------------
(***************************************************************************)
(* The ciphers.  A message is a function from 0 .. MessageLength - 1 to    *)
(* bytes; the result is <<>> for the algorithms that return an error.      *)
(***************************************************************************)
Messages == [0 .. MessageLength - 1 -> 0 .. ByteMod - 1]

crypto_xor_process(m, k) ==
    [i \in DOMAIN m |-> XorByte(m[i], k.key_data[i % k.length])]

crypto_caesar_encrypt(m, k) == [i \in DOMAIN m |-> (m[i] + k.key_data[0]) % ByteMod]

(* A fault in crypto_caesar_decrypt: the difference does not wrap.         *)
CaesarSaturates(m, k) ==
    [i \in DOMAIN m |-> IF m[i] < k.key_data[0] THEN 0 ELSE m[i] - k.key_data[0]]

crypto_caesar_decrypt(m, k) == [i \in DOMAIN m |-> (m[i] - k.key_data[0]) % ByteMod]

crypto_encrypt(ctx, m) ==
    CASE ctx.algorithm = "XOR" -> crypto_xor_process(m, key[ctx.key])
      [] ctx.algorithm = "CAESAR" -> crypto_caesar_encrypt(m, key[ctx.key])
      [] OTHER -> <<>>

crypto_decrypt(ctx, m) ==
    CASE ctx.algorithm = "XOR" -> crypto_xor_process(m, key[ctx.key])
      [] ctx.algorithm = "CAESAR" -> crypto_caesar_decrypt(m, key[ctx.key])
      [] OTHER -> <<>>

-----------------------------------------------------------------------------
KeysInit ==
    /\ key_store = [s \in Slot |-> NULL]
    /\ key_count = 0
    /\ next_key_id = 1
    /\ key = [h \in {} |-> NULL]
    /\ contexts = {} /\ live = {} /\ entered = {}

KeysNext ==
    \/ crypto_init
    \/ \E a \in Algorithms, n \in Requests : crypto_generate_key(a, n)
    \/ \E h \in Handle : crypto_destroy_key(h)
    \/ \E a \in Algorithms, h \in Handle : crypto_create_context(a, h)
    \/ \E ctx \in contexts : crypto_destroy_context(ctx)

KeysSpec == KeysInit /\ [][KeysNext]_keyVars

-----------------------------------------------------------------------------
KeysTypeOK ==
    /\ key_store \in [Slot -> Handle \cup {NULL}]
    /\ key_count \in 0 .. MAX_CRYPTO_KEYS
    /\ next_key_id \in 0 .. IdMod - 1
    /\ Issued = 1 .. Cardinality(Issued) /\ Issued \subseteq Handle
    /\ contexts \subseteq [algorithm : Algorithms, key : Issued]
    /\ live \subseteq Issued /\ entered \subseteq live

(* The store lists exactly the keys it had room for and that are not       *)
(* destroyed, each once, without a hole, in its first key_count slots      *)
(* (crypto.c:179-203).                                                     *)
StoreExact ==
    /\ KeysTypeOK
    /\ {key_store[s] : s \in 0 .. key_count - 1} = entered
    /\ Cardinality(entered) = key_count
    /\ \A s \in Slot : s >= key_count => key_store[s] = NULL

(* A context of a cipher decrypts what it encrypts, whichever keys were    *)
(* destroyed meanwhile, and its key is long enough for the cipher: the     *)
(* index i % length is defined and key_data[0] exists (crypto.c:28, 38).   *)
RoundTrip ==
    \A ctx \in contexts :
        ctx.algorithm \in {"XOR", "CAESAR"} =>
            /\ key[ctx.key].length >= IF ctx.algorithm = "XOR" THEN MinXor ELSE 1
            /\ \A m \in Messages : crypto_decrypt(ctx, crypto_encrypt(ctx, m)) = m
=============================================================================
