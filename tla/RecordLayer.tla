---------------------------- MODULE RecordLayer ----------------------------
(***************************************************************************)
(* The encrypted records of crypto/aead.rs.  In each direction a           *)
(* CryptoWriter seals records with a key and a counter, and a CryptoReader *)
(* opens them with its own key and counter; both keys are of the master    *)
(* key of their side, the direction and the cipher.                        *)
(*                                                                         *)
(* A sealed record is the pair it was sealed with and what it says; it     *)
(* opens under that pair only.                                             *)
(***************************************************************************)
EXTENDS Integers, Sequences

Directions == {"c2s", "s2c"}
Ciphers == {"chacha", "aes"}

VARIABLES
  masters,    \* the master key of the writer and of the reader of a direction
  sealing,    \* CryptoWriter: its cipher and nonce
  opening,    \* CryptoReader: its cipher and nonce
  wire,       \* records under way
  used,       \* history: the pairs of key and nonce that sealed a record
  reused      \* history: one of them sealed two

recordVars == <<masters, sealing, opening, wire, used, reused>>

\* create_crypto_pair on both sides: bootstrap with ChaCha20.
RecordInit(clientMaster, serverMaster) ==
  /\ masters = [d \in Directions |->
       IF d = "c2s" THEN [writer |-> clientMaster, reader |-> serverMaster]
       ELSE [writer |-> serverMaster, reader |-> clientMaster]]
  /\ sealing = [d \in Directions |-> [cipher |-> "chacha", nonce |-> 0]]
  /\ opening = [d \in Directions |-> [cipher |-> "chacha", nonce |-> 0]]
  /\ wire = [d \in Directions |-> <<>>] /\ used = {} /\ reused = FALSE

\* Mutant: the cipher is not part of the derivation.
MutNoSuffix(master, d, cipher) == <<master, d, "chacha">>

ExpandKey(master, d, cipher) == <<master, d, cipher>>

\* The pair the writer of direction d seals with next, the one its reader opens.
SealPair(d) == <<ExpandKey(masters[d].writer, d, sealing[d].cipher), sealing[d].nonce>>
OpenPair(d) == <<ExpandKey(masters[d].reader, d, opening[d].cipher), opening[d].nonce>>

Uses(d) == used' = used \cup {SealPair(d)} /\ reused' = (reused \/ SealPair(d) \in used)

\* One record of send_data or send_close_notify: the counter moves even if the
\* connection no longer takes it.
Seal(d, says, arrives) ==
  /\ Uses(d) /\ sealing' = [sealing EXCEPT ![d].nonce = @ + 1]
  /\ wire' = IF arrives THEN [wire EXCEPT ![d] = Append(@, [pair |-> SealPair(d), says |-> says])]
             ELSE wire
  /\ UNCHANGED <<masters, opening>>

\* recv_data: a record was read whole, and opens or not.
Opens(d) == wire[d] # <<>> /\ Head(wire[d]).pair = OpenPair(d)
Says(d) == Head(wire[d]).says

Open(d) ==
  /\ wire[d] # <<>> /\ wire' = [wire EXCEPT ![d] = Tail(@)]
  /\ opening' = [opening EXCEPT ![d].nonce = @ + 1]
  /\ UNCHANGED <<masters, sealing, used, reused>>

\* rekey, of a writer or a reader: refuses the cipher in use and the bootstrap.
Rekeyed(half, cipher) ==
  IF cipher = half.cipher \/ cipher = "chacha" THEN half ELSE [cipher |-> cipher, nonce |-> 0]
=============================================================================
