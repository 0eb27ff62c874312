------------------------------ MODULE Registry ------------------------------
(***************************************************************************)
(* The tables of confidential_crypto and what a key must be for each entry:*)
(* ciphers and signature schemes are found by name where a person chooses  *)
(* (settings) and by number where a file does (artifact header, envelope). *)
(* A lookup is the set of its results: empty where the code raises.        *)
(***************************************************************************)
EXTENDS Integers

\* production_safe is what get_cipher refuses to do without.
OpenSslCiphers ==
  {[name |-> "aes-256-gcm",             id |-> 1,   bytes |-> 32, safe |-> TRUE],
   [name |-> "chacha20-poly1305",       id |-> 2,   bytes |-> 32, safe |-> TRUE],
   [name |-> "aes-256-gcm-siv",         id |-> 3,   bytes |-> 32, safe |-> TRUE]}
XChaCha ==
   [name |-> "xchacha20-poly1305",      id |-> 4,   bytes |-> 32, safe |-> TRUE]
CbcHmac ==
   [name |-> "aes-256-cbc-hmac-sha256", id |-> 127, bytes |-> 32, safe |-> FALSE]
CipherTable == OpenSslCiphers \union {XChaCha, CbcHmac}

\* The type of the keys of a scheme, and how long they are made and must be.
SignerTable ==
  {[name |-> "ed25519",      id |-> 1, type |-> "ed25519", bits |-> 256,  least |-> 0],
   [name |-> "ecdsa-p256",   id |-> 2, type |-> "ec",      bits |-> 256,  least |-> 0],
   [name |-> "rsa-pss-3072", id |-> 3, type |-> "rsa",     bits |-> 3072, least |-> 3072],
   [name |-> "rsa-pss-4096", id |-> 4, type |-> "rsa",     bits |-> 4096, least |-> 4096],
   [name |-> "ml-dsa-65",    id |-> 5, type |-> "ml-dsa",  bits |-> 0,    least |-> 0]}

\* installed: the names whose backend this environment has (is_available).
CipherNamed(name, installed) ==
  {c \in CipherTable : c.name = name /\ c.safe /\ name \in installed}
CipherNumbered(id, installed) ==
  {c \in CipherTable : c.id = id /\ c.safe /\ c.name \in installed}
SignerNamed(name, installed) == {s \in SignerTable : s.name = name /\ name \in installed}

\* available_ciphers and available_signers: what the command line offers.
CipherNames(installed) == {c.name : c \in {d \in CipherTable : d.safe}} \intersect installed
SignerNames(installed) == {s.name : s \in SignerTable} \intersect installed

-----------------------------------------------------------------------------
(***************************************************************************)
(* A key as text: raw bytes or their hex digits, perhaps with a newline    *)
(* that an editor or a shell has added.                                    *)
(***************************************************************************)
Text(bytes, form, newline) == [bytes |-> bytes, form |-> form, newline |-> newline]
Stripped(t) == IF t.form = "hex" THEN 2 * t.bytes ELSE t.bytes
Length(t) == Stripped(t) + IF t.newline THEN 1 ELSE 0

DecodesUnstripped(t, size) ==
  \/ Length(t) = size /\ t.form = "raw" /\ ~t.newline
  \/ Length(t) # size /\ Length(t) = 2 * size /\ t.form = "hex"
\* decode_symmetric_key: does the text give back the key it was made of?
\* A length that fits comes first, so that a raw key is never stripped.
Decodes(t, size) ==
  \/ Length(t) = size /\ t.form = "raw" /\ ~t.newline
  \/ Length(t) # size /\ Stripped(t) = 2 * size /\ t.form = "hex"

\* _load_private and _load_public accept keys of the scheme's type, of any
\* length that is not below its least; origin: the scheme the key was made for.
Fits(origin, scheme) == origin.type = scheme.type /\ origin.bits >= scheme.least
=============================================================================
