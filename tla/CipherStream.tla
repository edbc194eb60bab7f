---------------------------- MODULE CipherStream ----------------------------
(***************************************************************************)
(* The bytes in-n-out produces.  An encrypted stream is a header (salt and *)
(* nonce), one ciphertext byte per plaintext byte, and a tag over all of   *)
(* it (crypto.StreamEncryptor); a push cuts it into numbered parts of      *)
(* part_size bytes (stream.encrypt_to_parts).                              *)
(*                                                                         *)
(* A byte is a tuple <<where, salt, position, plaintext it depends on>>: it *)
(* names everything its value depends on, so two                           *)
(* bytes are equal exactly when the real bytes are bound to be: AES-GCM is *)
(* a counter mode, hence a body byte depends on the key stream, its        *)
(* position and its own plaintext byte; the tag depends on every byte.     *)
(* A sha256 digest is modelled by the bytes it digests.                    *)
(***************************************************************************)
EXTENDS Integers, Sequences

CONSTANTS
  HeaderSize,   \* crypto.HEADER_SIZE: salt and nonce
  TagSize       \* crypto.TAG_SIZE: the GCM tag

ASSUME CipherAssumption == HeaderSize \in Nat \ {0} /\ TagSize \in Nat \ {0}

\* StreamEncryptor.header, what its update() makes of a whole plaintext, and
\* what finalize() returns.
Header(salt) == [k \in 1..HeaderSize |-> <<"header", salt, k, << >> >>]
Body(salt, text) == [k \in 1..Len(text) |-> <<"body", salt, k, <<text[k]>> >>]
Tag(salt, text) == [k \in 1..TagSize |-> <<"tag", salt, k, text>>]

\* The file the three make together.
Ciphertext(salt, text) == Header(salt) \o Body(salt, text) \o Tag(salt, text)

\* How many parts encrypt_to_parts yields: the last may be short, none is empty.
PartCount(bytes, size) == (Len(bytes) + size - 1) \div size

\* Part i, counted from 0, of bytes cut every size bytes.
PartOf(bytes, size, i) ==
  SubSeq(bytes, i * size + 1,
         IF (i + 1) * size < Len(bytes) THEN (i + 1) * size ELSE Len(bytes))
=============================================================================
