--------------------------- MODULE StreamDecryptor ---------------------------
(***************************************************************************)
(* crypto.StreamDecryptor as operators on its state.  Blocks of a file are *)
(* pushed in, of any size and cut anywhere; the decryptor peels the header *)
(* off the front and holds the last TagSize bytes back, because they are   *)
(* the tag unless more bytes follow.                                       *)
(*                                                                         *)
(* head and tail are the fields of the class, passed is what its AES-GCM   *)
(* context has been given so far: its position in the key stream and its   *)
(* authentication state are functions of those bytes.                      *)
(***************************************************************************)
EXTENDS CipherStream

\* What decryption makes of a byte that is not the body byte of its position.
Garbage == "garbage"

NewDecryptor == [head |-> << >>, passed |-> << >>, tail |-> << >>]

Shorter(a, b) == IF a < b THEN a ELSE b

\* Mutant of Update: one byte too few is held back.
UpdateHoldingLess(d, block) ==
  LET taken == Shorter(HeaderSize - Len(d.head), Len(block))
      buf == d.tail \o SubSeq(block, taken + 1, Len(block))
      held == Shorter(TagSize - 1, Len(buf))
  IN [head   |-> d.head \o SubSeq(block, 1, taken),
      passed |-> d.passed \o SubSeq(buf, 1, Len(buf) - held),
      tail   |-> SubSeq(buf, Len(buf) - held + 1, Len(buf))]

\* update(): the header first, then everything but the last TagSize bytes.
Update(d, block) ==
  LET taken == Shorter(HeaderSize - Len(d.head), Len(block))
      buf == d.tail \o SubSeq(block, taken + 1, Len(block))
      held == Shorter(TagSize, Len(buf))
  IN [head   |-> d.head \o SubSeq(block, 1, taken),
      passed |-> d.passed \o SubSeq(buf, 1, Len(buf) - held),
      tail   |-> SubSeq(buf, Len(buf) - held + 1, Len(buf))]

\* Every byte the decryptor has been given, in order.
Fed(d) == d.head \o d.passed \o d.tail

\* The salt the key is derived from is the one the header says.
SaltOf(d) == d.head[1][2]

\* The plaintext of the bytes passed on, under the right passphrase or another:
\* a byte comes out as it went in when its salt and its position are those it
\* was encrypted under.
Plain(d, right) ==
  [k \in 1..Len(d.passed) |->
     LET byte == d.passed[k] IN
     IF right /\ byte[1] = "body" /\ d.head = Header(byte[2]) /\ byte[3] = k
       THEN byte[4][1]
       ELSE Garbage]

\* What update() returns: the plaintext of the bytes this call passed on.
Released(d, block, right) ==
  SubSeq(Plain(Update(d, block), right), Len(d.passed) + 1,
         Len(Update(d, block).passed))

\* finalize() returns rather than raises.
Verifies(d, right) ==
  /\ Len(d.head) = HeaderSize
  /\ Len(d.tail) = TagSize
  /\ right
  /\ d.head = Header(SaltOf(d))
  /\ d.tail = Tag(SaltOf(d), Plain(d, right))
=============================================================================
