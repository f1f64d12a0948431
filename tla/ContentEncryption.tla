-------------------------- MODULE ContentEncryption -------------------------
(***************************************************************************)
(* The content of an encrypted message: encryptDESCBC, encryptAESCBC,      *)
(* encryptAESGCM (encrypt.go) and encryptedContentInfo.decrypt             *)
(* (decrypt.go).                                                           *)
(*                                                                         *)
(* Encryption is symbolic.  Byte number k of a ciphertext is the record    *)
(* [seal, at |-> k], where seal is everything that the ciphertext depends  *)
(* on: mode, cipher, key, initial value and plaintext.  A key or a nonce   *)
(* is a record [id, len] with its real length in bytes.  An algorithm, as  *)
(* a value of ContentEncryptionAlgorithm and as an object identifier, is a *)
(* string.                                                                 *)
(***************************************************************************)
EXTENDS Padding, FiniteSets

CONSTANTS
  DESBlock, AESBlock,  \* block sizes, 8 and 16
  GarbleBytes          \* the values of a byte that decrypts to garbage

ASSUME BlockAssumption == {DESBlock, AESBlock} \subseteq 1 .. 16 /\ GarbleBytes \subseteq Byte

CBCAlgorithms == {"AES128CBC", "AES256CBC"}
GCMAlgorithms == {"AES128GCM", "AES256GCM"}
ContentAlgorithms == {"DESCBC"} \cup CBCAlgorithms \cup GCMAlgorithms
KeyLen == [DESCBC |-> 8, AES128CBC |-> 16, AES256CBC |-> 32, AES128GCM |-> 16, AES256GCM |-> 32]

nonceSize == 12
Overhead == 16      \* gcm.Overhead(); the tag is one symbol of the ciphertext

NoKey == [id |-> "nil", len |-> 0]

\* The cipher of an object identifier, the keys it takes and its block size.
CipherOf(alg) == CASE alg = "DESCBC" -> "DES" [] alg = "DESEDE3CBC" -> "3DES" [] OTHER -> "AES"
NewCipher(cipher, key) ==
  key.len \in (CASE cipher = "DES" -> {8} [] cipher = "3DES" -> {24} [] OTHER -> {16, 24, 32})
BlockSize(cipher) == IF cipher = "AES" THEN AESBlock ELSE DESBlock

Sealed(seal, length) == [k \in 1 .. length |-> [seal |-> seal, at |-> k]]

CryptBlocks(cipher, key, iv, plaintext) ==
  Sealed([mode |-> "CBC", cipher |-> cipher, key |-> key, iv |-> iv, plain |-> plaintext],
         Len(plaintext))

GCMSeal(key, nonce, content) ==
  Sealed([mode |-> "GCM", cipher |-> "AES", key |-> key, iv |-> nonce, plain |-> content],
         Len(content) + 1)

\* encryptedContentInfo, its content as marshalEncryptedContent makes it: one
\* OCTET STRING in a constructed [0].  A segment that is not ok is an element that
\* asn1.Unmarshal does not read as a []byte.
ECI(alg, params, ciphertext) ==
  [alg |-> alg, params |-> params, compound |-> TRUE,
   segments |-> <<[ok |-> TRUE, bytes |-> ciphertext]>>]

Failed == [ok |-> FALSE, key |-> NoKey, eci |-> ECI("none", <<>>, <<>>)]

\* The cipher refuses a key of the wrong length.
Encrypted(key, cipher, eci) ==
  IF NewCipher(cipher, key) THEN [ok |-> TRUE, key |-> key, eci |-> eci] ELSE Failed

\* What encryptDESCBC and encryptAESCBC have in common: a key unless the caller has
\* one, an initial value, the padded content.
encryptCBC(alg, content, key, fresh) ==
  LET cipher == CipherOf(alg)
      k == IF key = NoKey THEN [id |-> fresh, len |-> KeyLen[alg]] ELSE key
      iv == [id |-> fresh, len |-> BlockSize(cipher)]
  IN  Encrypted(k, cipher,
        ECI(alg, [form |-> "iv", iv |-> iv, icv |-> 0],
            CryptBlocks(cipher, k, iv, pad(content, BlockSize(cipher)).bytes)))

encryptDESCBC(content, key, fresh) == encryptCBC("DESCBC", content, key, fresh)

\* The functions below are given the value of ContentEncryptionAlgorithm when they
\* read it.
encryptAESCBC(current, content, key, fresh) ==
  IF current \notin CBCAlgorithms THEN Failed ELSE encryptCBC(current, content, key, fresh)

encryptAESGCM(current, content, key, fresh) ==
  LET k == IF key = NoKey THEN [id |-> fresh, len |-> KeyLen[current]] ELSE key
      nonce == [id |-> fresh, len |-> nonceSize]
  IN  IF current \notin GCMAlgorithms THEN Failed
      ELSE Encrypted(k, "AES", ECI(current, [form |-> "gcm", iv |-> nonce, icv |-> Overhead],
                                   GCMSeal(k, nonce, content)))

-----------------------------------------------------------------------------

Decryptable == ContentAlgorithms \cup {"DESEDE3CBC"}

\* The byte that CBC decryption recovers at position k: its block is the first or
\* the c-th of a ciphertext made with the key, and so is what it is xored with.
Recoverable(cipher, key, iv, ct, k) ==
  LET bs == BlockSize(cipher)
      seal == ct[k].seal
      start == k - ((k - 1) % bs)     \* the first byte of the block in ct
      from == IF start = 1 THEN 1 ELSE start - bs
  IN  /\ [seal EXCEPT !.iv = iv, !.plain = <<>>] =
           [mode |-> "CBC", cipher |-> cipher, key |-> key, iv |-> iv, plain |-> <<>>]
      /\ (ct[k].at - 1) % bs = (k - 1) % bs
      /\ start = 1 => ct[k].at <= bs /\ seal.iv = iv
      /\ \A m \in from .. start + bs - 1 : ct[m] = [seal |-> seal, at |-> ct[k].at - k + m]

\* The plaintexts with the bytes at known recovered and garbage elsewhere.
Plaintexts(ct, known) ==
  {[k \in 1 .. Len(ct) |-> IF k \in known THEN ct[k].seal.plain[ct[k].at] ELSE g[k]] :
     g \in [(1 .. Len(ct)) \ known -> GarbleBytes]}

\* The plaintexts that CryptBlocks may give.
CBCDecrypt(cipher, key, iv, ct) ==
  UNION {Plaintexts(ct, known) :
           known \in {{k \in 1 .. Len(ct) : Recoverable(cipher, key, iv, ct, k)}}}

\* gcm.Open: all of a ciphertext made with the key and the nonce, and no more.
GCMOpen(key, nonce, ct) ==
  IF ct # <<>> /\ ct = GCMSeal(key, nonce, ct[1].seal.plain) THEN Bytes(ct[1].seal.plain)
  ELSE Invalid

\* The GCM branch of decrypt with the error of gcm.Open dropped: the plaintext is nil.
decryptGCMUnchecked(eci, key, ct) ==
  IF eci.params.form = "gcm" THEN Bytes(GCMOpen(key, eci.params.iv, ct).bytes) ELSE Invalid
decryptGCM(eci, key, ct) ==
  IF \/ eci.params.form # "gcm"
     \/ eci.params.iv.len # nonceSize \/ eci.params.icv # Overhead
  THEN Invalid ELSE GCMOpen(key, eci.params.iv, ct)

\* encryptedContentInfo.decrypt after the ciphertext is joined: the set of its
\* possible results.
decrypt(eci, key, ct) ==
  LET cipher == CipherOf(eci.alg)
      bs == BlockSize(cipher)
  IN  IF eci.alg \notin Decryptable \/ ~NewCipher(cipher, key) THEN {Invalid}
      ELSE IF eci.alg \in GCMAlgorithms
      THEN {decryptGCM(eci, key, ct)}
      ELSE IF eci.params.iv.len # bs \/ Len(ct) = 0 \/ Len(ct) % bs # 0 THEN {Invalid}
      ELSE {unpad(p, bs) : p \in CBCDecrypt(cipher, key, eci.params.iv, ct)}

=============================================================================
