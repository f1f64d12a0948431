# A TLA+ development for digitorus/pkcs7

The package reads and writes PKCS#7 / CMS messages: signed data, enveloped data
and data encrypted with a pre-shared key. Most of what is hard about it is
*structure*: a recursive reader of bytes that come from anywhere, a builder whose
methods may be called in any order and may fail half-way, and a verifier that must
tie together six separately stored fields of a message while time passes between
signing and verification. It starts no goroutine, but its functions share two
things with others that may run at the same time: the package variable
`ContentEncryptionAlgorithm`, which one `Encrypt` reads twice, and up to twice
more for every KEM recipient, and the caller's array behind the content, into
which padding may be written.

## Inventory

| Component | State | Operations | Interacts with |
|---|---|---|---|
| BER to DER transcoder (`ber.go`) | the recursion of `readObject`: slice, offset, open objects | `ber2der` | called by `Parse` on every message before `encoding/asn1` |
| Algorithm tables (`pkcs7.go`, `sign.go`, `verify.go`) | none | `getHashForOID`, `getOIDForEncryptionAlgorithm`, `getCMSSignerAlgorithm`, `sign`, `getSignatureAlgorithm` and its helpers, `GetDigestOIDForSignatureAlgorithm` | used by builder and verifier, which must agree |
| Certificate lookup (`pkcs7.go`, `verify.go`, `sign.go`) | none | by issuer and serial number, `verifyPartialChain` | crypto/x509 |
| SignedData builder (`sign.go`) | `SignedData`: data, content info, digest list, certificates, signers, two configured OIDs | the exported methods | the caller's keys, which may fail; the clock |
| Finish / Parse (`sign.go`, `verify.go`, `pkcs7.go`) | the encoded message, the `PKCS7` value | `Finish`, `DegenerateCertificate`, `Parse`, assignment to `p7.Content` | `encoding/asn1`, which sorts sets |
| Verification (`verify.go`) | none (reads the clock) | `Verify*`, `GetOnlySigner`, `UnmarshalSignedAttribute` | crypto/x509 |
| EnvelopedData (`encrypt.go`, `decrypt.go`) | the package variable `ContentEncryptionAlgorithm` | `Encrypt`, `Decrypt` | RSA, KEM recipients |
| EncryptedData (`encrypt.go`, `decrypt.go`) | the same variable | `EncryptUsingPSK`, `DecryptUsingPSK` | |
| KEM recipients, AES key wrap (`kem.go`) | none | `makeKEMRecipientInfo`, `decryptKEMRecipientKey`, `aesKeyWrap`, `aesKeyUnwrap` | Encrypt and Decrypt |
| Padding (`encrypt.go`, `decrypt.go`) | none | `pad`, `unpad` | CBC modes |

Hard behaviours, and what makes each component correct:

* **Transcoder.** Definite and indefinite lengths nest in any way, and only some
  of the enclosing objects bound the reader. Correct means: it accepts exactly the
  objects of the grammar, it stays inside every enclosing object, it uses bounded
  recursion and linear work, it returns on every input, and its output needs no
  second pass.
* **Builder.** A signing call can fail after it has begun to change the structure;
  methods such as `Detach`, `SetContentType` and `RemoveAuthenticatedAttributes`
  can be called before or after signing. Correct means: no failed call leaves a
  signer behind, the digest list covers the signers, attributes that must be
  single are single, and a message made the documented way verifies.
* **Verifier.** The content, the digest attribute, the digest algorithm, the
  signature algorithm, the attributes, the signature and the certificate found for
  the signer are all taken from the message, and what is signed and checked are bytes
  that do not say whether they are a content or the encoding of attributes. Correct
  means: an accepted message was signed by the holders of the keys it names, as it is
  or, because of that ambiguity, with the same bytes in the other of these two roles
  and in no further way; and the chain is judged at the right time.
* **Envelope.** The algorithm is read again and again while it may change; one
  message has recipients of several kinds, sorted by their encoding and mixed with
  those of other implementations; some errors end a search and others are skipped.
  Correct means: every addressed reader gets the content of an intact message,
  every other holder of a key its content or an error, nobody gets bytes other
  than the content out of an authenticated one, and all calls return. A reader
  with the wrong key may well get bytes out of a CBC message: one padding in 256
  or so is valid by chance.
* **Padding and key wrap.** Correct means: the pairs of functions are inverse to
  each other, accept nothing else, and key wrap is the one of RFC 3394; and a
  content is encrypted as it was given, whatever memory it shares.

`PROJECT.json` lists these hazards with the line where each one bites.

## Modules

| Module | Models | Uses |
|---|---|---|
| `BerReference` | the language of `ber.go` as a grammar, with no reader | |
| `Ber` | `ber.go` as a stack machine, its comparison with the grammar | `BerReference` |
| `BerReferenceProofs` | lemmas about the grammar | `BerReference` |
| `BerProofs` | theorems about `Ber` | `Ber`, `BerReferenceProofs` |
| `MCBer` | input sets | `Ber` |
| `Algorithms` | the OID tables, symbolic signatures | |
| `Certificates` | lookup, partial chains, the parts of crypto/x509 that are called | `Algorithms` |
| `SignedData` | the builder | `Certificates` |
| `Verify` | the verification functions | `SignedData` (record shapes) |
| `SignedMessage` | builder, wire, `Parse` and receiver together | `Verify` |
| `SignedDataProofs`, `SignedMessageProofs` | theorems about the two | `SignedData`, `SignedMessage` |
| `MCFixtures`, `MCSignedData`, `MCSignedMessage`, `MCClaims` | keys, certificates, configurations; claims of comments | the above |
| `Padding` | `pad` and `unpad` as operators | |
| `SharedBuffer` | CBC encryption of slices of one array, padding and block reads interleaved | `Padding` |
| `KeyWrap` | `aesKeyWrap` and `aesKeyUnwrap`, one loop iteration per step; the wrap as RFC 3394 describes it | |
| `ContentEncryption` | the `encrypt*` functions and `encryptedContentInfo.decrypt` as operators | `Padding` |
| `Recipients` | RSA and ML-KEM RecipientInfos, made and searched | `Certificates` (lookup) |
| `SealedBox` | abstract specification: what an encrypted message promises | |
| `Envelope` | `Encrypt*`, transport, `Decrypt*` as a state machine; refines `SealedBox` | `ContentEncryption`, `Recipients`, `SealedBox` |
| `PaddingProofs`, `SharedBufferProofs`, `KeyWrapProofs` | theorems about the three | `Padding`, `SharedBuffer`, `KeyWrap` |
| `EnvelopeProofs` | theorems about `Envelope`, and that it implements `SealedBox` | `Envelope`, `PaddingProofs` |
| `MCSharedBuffer`, `MCKeyWrap`, `MCEnvelope` | arrays and slices; a small cipher; recipients and readers | the above |

### Ber

`readObject` is recursive; the module keeps its activation records on `stack`. A
frame holds the local variables that matter inside the content loop: the tag
bytes, the end of the slice (`limit`, i.e. `len(ber)`), `contentEnd`,
`indefinite`, and the DER of the children so far. The depth argument is the height
of the stack. One action is one header with its checks (`ReadPrimitive`,
`OpenConstructed`, `RejectHeader`), one loop exit (`CloseDefinite`,
`CloseIndefinite`) or the failure of `isIndefiniteTermination`
(`RejectUnterminated`). `asn1Object` has one method, `EncodeTo`, so an object is
represented by what that method writes; this moves the writing before the end of
the reading, which nobody can observe because both are pure and an error discards
the output. `TranscodeAgain` models what `TestBer2Der` does: the output is
transcoded again, which turns idempotence into an invariant. All error returns are
one status.

`BerReference` says what the same bytes mean without reading them: a string is an
object when it can be cut, at any place, into a tag, a length field and a content of
that length, or into a tag, the byte 128, a content and the end-of-contents marker;
the content of a constructed object is a sequence of objects. `DersOf(s, levels)` is
the set of all DER forms that the cuts of `s` give, so that ambiguity would show as a
set of two. The contents are a function (`Contents`) that is recursive in the length
of the text. `levels` counts down what `depth` counts up.

### Algorithms and Certificates

Object identifiers are strings named after the Go variables. A signature is a
record of key, hash, scheme and message: it cannot be made without the key (`sign`
is only used in signing actions), and `CheckSignature` accepts it exactly for the
same key, algorithm and message. Hashes are injective. These two assumptions are
the usual symbolic ones, and there is no third one: contents and encodings of
attributes are not assumed to be different bytes. Certificates carry names, serial number, key, the key
that signed them, a CA flag and a validity period; `ChainVerifies` is
`x509.Certificate.Verify`: a path to a root through the intermediates, all valid
at one time, linked by names and by signatures, while `CheckSignatureFrom`, which
`verifyPartialChain` uses, compares no names.

### SignedData

One action per method. A method that returns an error is modelled as the branch
with `result = "error"` and the changes made before the error: `AddSignerChain`
lists the digest first, so an error of the hash table, of the attribute encoder or
of the signer leaves it listed. The loop over the extra attributes
(`sign.go:196`) is followed entry by entry: `addedExplicitSigningTime` is its flag
after each of them, and `AddedEntries` are those that it does not pass over. `signerError` is the failure of a `crypto.Signer`,
which may happen at any call. Lists of attributes are sorted by the code before
use, so they are sets of values per type. Two attributes with the same type and
value, and extra attributes that repeat the content type or the message digest,
are not represented. `signed`, `proper` and `removed` are history variables: every
signature made, with its data; whether all calls were of the documented kind;
whether attributes were removed.

A byte string is a record: `[text |-> name]` for bytes that encode no attributes,
`[attributes |-> attrs]` (`Encoding`) for the DER of a SET OF attributes. Both may be
the data that callers sign and the content of a message. `Message` is what is signed
and checked: the data (`sign.go:266`, `verify.go:162`) or the encoding of the
attributes (`sign.go:222`, `verify.go:188`), with nothing that tells the two apart.

### Verify and SignedMessage

`verifySignature` and `verifySignatureAtTime` differ only in the time of the chain
check; both are built from `SignerVerifies`. `Tamper` is the transport, which has no
key. It changes a message up to `MaxChanges` times, each time one part of it: the
content, which becomes any byte string that somebody without a key may know
(`Known`: contents, and whatever bytes were signed); the certificates; or a signer
(`ChangedSigners`: its signature, by that of another signer; its attributes, by
none, by any that were signed or that some data encode; one of its attributes; an
OID, the parameters, the issuer and serial number). `changes` counts. The receiver of
a detached signature may set any known bytes as content. A content that is cut into
segments, of which `Parse` takes the first (`verify.go:261`), is one of the changes
of the content; the error returns of `parseSignedData` are for messages that do not
decode.

`Authentic`, `TrustedAtSigningTime` and `SigningTimeSigned` name the three things
that an accepted signature can be: `Genuine` (this content, these attributes),
`ShownAsContent` (signed attributes are dropped from the signer and their encoding
is the content) and `ShownAsAttributes` (the content was signed without attributes,
encodes attributes, and stands as the attributes of a signer of another content).
The repository lists hardening against this exchange as future work
(`src/README.md:54`). All three do occur in `signed_message` and in `two_signers`;
the properties say that there is no fourth. `Parse`
reads the signers in any order, because `encoding/asn1` sorts them by encoding.
`Parse` here starts from a message that decodes; what reaches `asn1.Unmarshal` is
the subject of `Ber`.

### Padding and SharedBuffer

`Padding` translates the two functions. `SharedBuffer` adds what Go's `append`
does in `pad`: without spare capacity it copies (`AppendCopies`), with it the
padding goes byte by byte into the caller's array behind the slice
(`AppendInPlace`), and `CryptBlocks` reads the result one block per step. Calls
are given any slices of one array. `RecoversContent` holds for slices whose spare
capacity does not reach into another call's slice, and for two calls on the same
slice; `claim_chunks` shows what happens otherwise.

### KeyWrap

A buffer is a sequence of eight-byte halves; the block cipher and the xor with the
counter are constant operators, about which only `CipherAssumption` and
`XorAssumption` are known: decryption inverts encryption both ways, xor undoes
itself. A run of the module is a call of one function and then of the other on its
output. `first` and `trace` are history: the first call's argument and result, and
the buffer at every position of its loops. `RFC3394Wrap` is written from the RFC
and not from the code: it shifts all registers by one place in each of its 6 n
steps, where the code leaves them in place and moves two indices.

### ContentEncryption, Recipients and Envelope

Encryption is symbolic. A byte of a ciphertext is its position together with
everything the ciphertext depends on. CBC decryption recovers a byte if its block
and the block before it stand as they were made, and gives some byte of
`GarbleBytes` otherwise; `unpad` is then really applied to what came out. GCM
opens a ciphertext that is complete and unchanged, with its nonce. RSA decryption
with another key fails; ML-KEM decapsulation with another key gives another
secret, and the key unwrapping notices (what `KeyWrap` shows of it). Keys have
their lengths, because ciphers refuse by length.

`Envelope` has one sender and one reader. A call of `Encrypt` takes a step for
every read of `ContentEncryptionAlgorithm`: the switch (`EncryptCall`), the
function that it chose (`EncryptContent`), and the two comparisons of
`makeKEMRecipientInfo` (`KEMCheck1`, `KEMCheck2`) for each KEM recipient. With
`Racing`, `SetAlgorithm` may come between any two of them. (The switch in
`encryptAESCBC` or `encryptAESGCM` is one read, from which key length and label
both come; the other mention of the variable there is in the text of an error.)
`Marshal` sorts the recipients in any order. The transport may cut the ciphertext
into segments or make it primitive (`Resegment`), add RecipientInfos that other
implementations write (`AddRecipient`: by subject key identifier, key agreement,
other algorithms, malformed), both without harm to `intact`; or damage it
(`Damage`). `DecryptCall` gets the content key and starts `decrypt`, `JoinSegment`
is one turn of the loop over the segments, `DecryptOpen` the rest of `decrypt`.

`SealedBox` knows nothing of algorithms: a box is sealed once, may be obstructed
or damaged, and is opened once. Its `MayGet` is the promise. A holder of a key may
get the content. An error is allowed to all but the `readers` that the box
certainly serves. Any bytes are allowed only if the box is not authenticated and,
moreover, it is not intact or the reader holds no key: in the `envelope` run the
reader with pre-shared key `q8` does get validly padded bytes out of an intact
DES-CBC message that was made under another key. The refinement mapping (`Box`)
takes

* `state` from the message and from whether `Decrypt` has returned,
* `holders`: the readers with the private key of a recipient, or with the
  pre-shared key,
* `readers`: while the message is intact, those that are `Served`: they present the
  certificate they were addressed by, with its key, and the first RecipientInfo
  that decides what they get (`Decides`: one of their own kind that is malformed or
  names their certificate) was made for their key (`MadeFor`). A KEM reader needs
  AES-CBC content. A reader with a pre-shared key needs only that key,
* `authenticated`: the message says AES-GCM. It is what the message says when it is
  read: a message relabelled from GCM to CBC on its way is not authenticated, and
  the box promises nothing about the bytes it yields.

`Decides` repeats the rule by which `Decrypt` stops its search, so the refinement
shows that the search skips what is not its own and takes the first that is; it does
not show that stopping there is the right rule.

## Runs

| Run | Shows |
|---|---|
| `ber` | all strings up to 5 bytes over the 9 bytes that headers distinguish, up to 8 bytes over {0, 2, 0x30, 0x80} with nesting limit 2, and long objects at 127/128, 255/256: the reader is the grammar (`MatchesGrammar`), its output is a fixed point (`Idempotent`), `Containment`, `BoundedWork`, and under fairness `Terminates` |
| `signed_data` | the builder with two signers, failing signers, unsupported digests, a value that is no key: `DigestsListed`, `SigningTimeUnique`, `FailedCallAddsNoSigner` |
| `signed_message` | one signer, two data of which one encodes attributes about the other, a twin certificate, three times, up to two changes on the wire: `Authentic`, `TrustedAtSigningTime`, `RoundTrip`, `LongTerm` |
| `two_signers` | two signers with ECDSA, Ed25519 and ML-DSA keys, two digests, text or an encoding of attributes, in either order, one change on the wire: `Authentic`, `RoundTrip`; the reported signing time was signed (`SigningTimeSigned`); the three tables agree (`DigestsAgree`) |
| `shared_buffer` | any two slices of an array of five cells, both block sizes, at once or in turn: `RecoversContent` |
| `key_wrap` | all keys and all ciphertexts of up to four halves: `MatchesRFC3394`, `UnwrapInvertsWrap`, `AcceptsOnlyWraps` |
| `envelope` | every algorithm, all lists of up to two recipients out of eight, thirteen readers, the variable set at any step of `Encrypt`: `ImplementsSealedBox`, `LabelMatchesKey`, and under fairness `CallsReturn` |
| `envelope_damaged` | two changes in transport, segments, foreign RecipientInfos: `ImplementsSealedBox`, `KEMAcceptable`, `CallsReturn` |
| `claim_*` | four sentences of comments or tests that the code does not keep |

Bounds. Five bytes hold a tag of two bytes and every relation between a length
field and the content it announces; lengths that need more bytes than TLC can
enumerate are covered by the list `LongInputs`. Eight bytes over four symbols hold
three nested objects with their markers, one level more than the limit of 2, and a
sibling after a closed indefinite object. The alphabet contains every byte that a
guard distinguishes in that run. For messages: two data are enough to
substitute one for the other, and one of them encodes attributes that are about the
other and name its digest, so that both exchanges of the roles of content and
attributes are accepted somewhere; two certificates to have the same issuer and serial
number, three times to be before, in and after a validity period; the root becomes
valid at time 2 and the leaf expires after it, so that signing time, current time
and validity can disagree in both directions. Two changes on the wire in
`signed_message` drop the attributes and replace the content, or put both
attributes and a content in place; with two signers there is one change, which
exchanges a part of one signer for that of the other, and the receiver's choice of a
detached content is another. `MaxDigests` is above `MaxSigners` in `signed_data`, so
that failed calls leave entries. RSA keys sign under SHA-1 in `signed_message` and
under SHA-256 in `signed_data`; the remaining kinds of keys sign in `two_signers`,
under SHA-1 or SHA-512, always with a signing time unless they sign without
attributes.

For encryption: block sizes 2 and 3 stand for 8 and 16. They differ and neither
divides the other, so lengths are told apart under relabelling, and contents of no
byte and of three bytes fill blocks exactly, end short of one and look padded.
`GarbleBytes` = {1, 9} has a byte that is a valid padding and one that never is.
Two recipients are enough for one to stand before the other, with the same issuer
and serial number or of another kind; two changes for a ciphertext that is cut and
then has a malformed segment, or two obstacles. In `shared_buffer` five cells hold
two slices with all relations of cells and spare capacity; the calls are symmetric
(`CallSymmetry`), since only their slices differ and all assignments of slices are
initial states. Halves of two bits make four halves 256 keys; the small cipher
mixes both halves, and four halves have 24 steps, more than the counter's values
in two bits.

Fairness. `Terminates` assumes weak fairness of `Next`: `ber2der` is sequential Go
code that does not block, so while it can take a step it does. `CallsReturn`
assumes the same of a started `Encrypt` (`Encrypting`) and a started `Decrypt`
(`JoinSegment \/ DecryptOpen`), and nothing of the callers, of the transport or of
the goroutine that sets the variable. A builder's caller may stop at any time and
messages need not be read. The runs of `SignedMessage`, `Envelope`, `SharedBuffer`
and `KeyWrap` end where all calls have returned, so they do not check deadlock; the
others do.

## What differs from what is written

Each of these is a run that TLC refutes, with the quotation in `PROJECT.json`:

* `Detach` resets the content type, although the signers have signed the one set
  by `SetContentType`.
* `VerifyWithChainAtTime` does use the signing-time attribute.
* CBC encryption writes its padding behind the caller's slice: of two chunks of
  one array the second is encrypted with the padding of the first in it, also when
  the calls come one after the other.
* A KEM recipient gets AES-GCM or DES content when the variable changes between
  the encryption and the check of `makeKEMRecipientInfo`; no KEM reader accepts
  it.

The models also have the following, each of which a single call shows, so that no
search is needed:

* `SetEncryptionAlgorithm` has no effect on `AddSigner`/`AddSignerChain`
  (`sign.go:154` passes nil; `sign.go:131` promises it).
* With parents, the stored issuer name is the first parent's subject
  (`sign.go:173`); a parent that has the issuing key under another name is
  accepted and yields a message whose signer's certificate cannot be found.
* `RemoveAuthenticatedAttributes` on a signed message leaves a signature that no
  longer verifies.
* `Parse` has a check for trailing data (`pkcs7.go:238`) that can never fire,
  because `ber2der` drops what follows the first object.
* Signed bytes have no domain: `sign.go:222` signs encoded attributes, `sign.go:266`
  bare data, and `verify.go:162` and `verify.go:188` check either. A message signed
  with attributes is accepted, without them, as one whose content is their encoding;
  data signed with `SignWithoutAttr` that are an encoding of attributes are accepted
  as attributes about another content, and then give its signing time. The README of
  the package lists this hardening as future work (`src/README.md:54`), so it is not a
  disagreement: the properties allow these two exchanges and no other, and the
  theorem `RolesHold` says when they are excluded.
* A nil recipient panics in `makeRecipientInfo` (`encrypt.go:381`), before the
  check of `kem.go:57`.
* `EncryptUsingPSK` refuses AES-CBC with an error that names it as supported
  (`encrypt.go:67`), and labels AES-GCM content by the variable whatever the
  length of the key.
* A segment of the ciphertext that is not a primitive OCTET STRING, and all behind
  it, are left out without an error (`decrypt.go:97`).
* The DER of an object can be longer than the object: the length field that an
  indefinite one gets has four or five bytes from 2^16 bytes of content on, and
  replaces three. Lengths of 2^31 and more are refused, so the output for an input
  just below that size may not be accepted. `IdempotentHolds` therefore assumes
  inputs below 2^30 bytes, which is enough but not the least bound.

## Proofs

`BerProofs` proves, for every set of inputs and every nesting limit,

* `TypeCorrect`: `Spec => []TypeOK`,
* `ContainmentHolds`: `Spec => []Containment`,
* `BoundedWorkHolds`: `Spec => []BoundedWork`,
* `MatchesGrammarHolds`: `Spec => []MatchesGrammar`,
* `IdempotentHolds`: `Spec => []Idempotent`, if no input has 2^30 bytes or more,

from `BerAssumption` alone (the limit is a natural number, inputs are sequences of
bytes). `Containment` is not inductive: it mentions only definite objects, while
the next header is checked against the slice of the innermost object, which may be
indefinite. The invariant `BerInv` therefore says of *every* frame that its slice
ends inside the slices of the frames below it and that the read position is inside
it (`Nested`), and of a definite frame that its slice ends with its content; this
is what cutting `ber` before the recursion (`ber.go:237`) establishes. Around it
stand the depth bound, `2 * nodes <= offset`, and that the stack is empty when the
call has returned. The lemmas follow the code: `TagEndBounds`,
`LengthBytesBounds`, `LengthBounds`, `HeaderBounds` say that an accepted header
takes at least two bytes and announces a content inside the slice;
`NestedAdvance`, `NestedPop`, `NestedAppend`, `NestedInner` say what the four uses
of the stack preserve; then there is one lemma per action.

`MatchesGrammar` relates a reader that goes from left to right with a grammar that
cuts anywhere. The proof has three layers.

1. The grammar (`BerReferenceProofs`). That `Contents` satisfies its recursion for
   every text (`ContentsDefined`) takes an induction on the length, which is done by
   least counterexample (see the end of this section). From it follow the equations
   the rest uses: `ContentsEmpty`, `ContentsCons` (an object, then a content) and
   `DersOfCases`.
2. One header (`BerProofs`, to `ObjectIs`). A tag is where `readObject` stops reading
   it (`TagFound`, `TagCut`); a length field is one that `LengthOK` accepts, and then
   it says `Length` (`LengthFound`, `LengthCut`, by its number of bytes). So every
   cut of the grammar is the one that the reader finds (`DefiniteCutFound`,
   `IndefiniteCutFound`), and what the reader finds is a cut (`DefiniteCutMade`,
   `IndefiniteCutMade`). What is written is the same (`EncodeToIs`).
3. The recursion. `ObjectAt(p, limit, l, q, y)` says that the grammar has an object
   from `p` to `q` with the DER `y`, `RestAt` the same of the rest of a content.
   `ObjectRefused`, `ObjectPrimitive`, `ObjectConstructed`, `RestAtEnd`,
   `RestAtMarker`, `RestWithoutRoom` and `RestSplits` unfold them once for each thing
   the reader can do at `p`. `ChainIn` then says how the open objects are completed:
   a chain of positions and encodings with one link per frame of the stack. The
   invariant `GrammarInv` is that the input begins with an object that ends at `k`
   and has the DER `x` exactly when the chain from the present position can end so.
   It is an equivalence, which is what makes it inductive: each step keeps all ways
   to go on, not only one. When the stack is empty the chain has no links, so `k` and
   `x` are the offset and the result, and there is no other object; after an error
   there is no chain, so there is no object at all.

For `Idempotent`, `DerIsDer` shows by least counterexample that what the grammar
writes for an object is at most twice as long as the object (a length field of one
byte is written in at most two, any other in at most five) and, up to the largest
length of four bytes, an object whose DER is itself. So the input of the second call
is in `DersOf` of itself (`PassInv`), and `GrammarInv` does the rest.

`SignedDataProofs` proves, for all data, keys, certificates, chains,
configurations, OIDs and bounds that satisfy `SignedDataAssumption`,

* `BuilderTypeCorrect`: `SDSpec => []SDTypeOK`,
* `FailedCallHolds`: `SDSpec => FailedCallAddsNoSigner`,
* `DigestsListedHolds`: `SDSpec => []DigestsListed`,
* `SigningTimeUniqueHolds`: `SDSpec => []SigningTimeUnique`.

The last two need an invariant over all signers (`ListInv`): for *every* digest, the
number of signers that use it is at most the number of its entries in the list
(`Covered`, about cardinalities of index sets), and no signer has two signing times
(`Timed`). What a signing call adds to the latter is shown from the loop
(`SigningTimesUnique`): the flag, once set, stays set (`FlagStays`), so
of two signing times the loop passes over the later one (`AddedOnce`). Two facts carry it: every method but the two that sign leaves each signer
what it was, except for its attributes (`SignersKept`), and a signing call appends
at most one signer after one entry for its digest, while a failed one may leave the
entry alone.

`SignedMessageProofs` proves, with trust stores that are not nil
(`SignedMessageAssumption`),

* `AuthenticHolds`: `Spec => []Authentic`,
* `TrustedHolds`: `Spec => []TrustedAtSigningTime`,
* `SigningTimeHolds`: `Spec => []SigningTimeSigned`,
* `RolesHold`: `Spec => []RolesKeptApart`,
* `RoundTripHolds`: `Spec => []RoundTrip`,
* `DigestsAgreeHolds`: `Spec => []DigestsAgree`,
* `LongTermHolds`: `Spec => LongTerm`.

`Authentic` speaks of a parsed message only, so the invariant follows signatures
back to the calls that made them. `EventOK` says of every recorded signing call
that its signature is over its attributes, or over its data if it has none, that
attributes hold the digest of its data and no other, and that they hold at most
one signing time. `Made` says that each signature of a list of signers is that of
some recorded call. `Inv` is `EventOK` for all calls, and `Made` for the builder,
the wire and the parsed message. It says nothing of which signer carries which
signature, nor of attributes outside the calls: the transport may exchange both.
The argument for an accepted signer (`SignerSound`): the signature check makes the
bytes that the call signed equal to those that the signer is checked with, which are
the content or the encoding of its attributes. The call signed an encoding or its
data, so there are four cases (`MessageCases`). In two of them both sides are of one
kind; then, if there are attributes, the digest check makes the content equal to the
data of the call (`Genuine`). The other two are the exchanges of roles. For
`TrustedAtSigningTime` the chain check is made at the value `unmarshalAttribute`
finds first, which is the signed one because there is only one
(`SigningTimesUnique`); in data that stand as attributes it is one of theirs.
`SigningTimeHolds` follows from `SignerSound` for the signer that is encoded first.
`RolesKeptApart` is the unrestricted promise under the premises that make it true: if
the content encodes no attributes and the key of the signer's certificate never
signed, without attributes, data that do, then content and attributes of an accepted
signer were signed by that key as they are. The theorems rest on the symbolic
assumptions above and on nothing else: digests are injective, signatures cannot be
made without the key.

`RoundTrip` is the other direction, and asks for more: everything the verifier looks
at must belong to the same call. `TripInv` says so of the builder, and of the wire
and the parsed message while there was no change on the wire (`Delivers`). Every signer is the
outcome of one recorded call (`Sound`): its signature checks against the certificate
of that call with the algorithm that `getSignatureAlgorithm` finds from the three
OIDs of the SignerInfo, its digest attribute is that of the content, the certificate
matches by issuer and serial number and was valid at the signing time; and that
certificate is carried along (`Carried`). That the tables of the builder and of the
verifier fit is one lemma over all keys and OIDs (`TablesAgree`). Given the
invariant, the search of `Parse` for the signer's certificate may stop at another
certificate than the one the call added; `CertFound` shows that the first match
exists, and the premise of the property (distinct issuers and serial numbers) that
it is the same. `Declared` adds, for every signer and without a premise on the
calls, that its digest algorithm is the one its signature was made with; from it
follows `DigestsAgree`. That theorem has a hypothesis of its own: digests are
configured by digest OIDs, or by OIDs that are refused. `getHashForOID` also takes
OIDs of signature algorithms, so that `SetDigestAlgorithm(ecdsa-with-SHA256)` with a
configured signature OID gives a message that verifies and names a digest that
`GetDigestOIDForSignatureAlgorithm` never names. `LongTerm` is an action property and
follows from the code of `VerifyWithChain` alone: with a signing time for every
signer, the clock is read nowhere.

`EnvelopeProofs` proves, for any keys, contents, certificates, lists of recipients,
readers and foreign RecipientInfos that satisfy `CallAssumption`,
`ForeignAssumption` and `BlockAssumption`, any number of changes in transport, and
the variable set at any time,

* `EnvInvariant`: `EnvSpec => []EnvInv`,
* `EnvelopeImplementsSealedBox`: `EnvSpec => ImplementsSealedBox`,
* `LabelMatchesKeyHolds`: `EnvSpec => []LabelMatchesKey`,
* `KEMAcceptableHolds`: `EnvSpec => []KEMAcceptable` if `Racing = FALSE`; with
  `Racing` it does not hold, which is what `claim_kem_content` shows.

The assumptions: arguments have the types of the code; a foreign RecipientInfo is not
made for one of the readers' own keys (an implementation that addresses our reader
with another content key is another sender); block sizes are between 1 and 16.
`EnvInv` has three parts. `EncInv` follows `Encrypt` through its reads of the
variable: once content is encrypted, the label, the parameters, the key length and
the ciphertext belong together (`ContentMade`), and the RecipientInfos so far are
those of a prefix of the recipients (`InfosMade`). The setting that the first switch
saw is deliberately not tied to the label, since another goroutine may come between.
`MsgInv` says what survives in transport: every recipient still has its RecipientInfo
(`Addressed`), every byte of every segment was made or is foreign, and, while the
message is intact, the segments join to the ciphertext. `DecInv` says that what
`decrypt` has joined, followed by what is left, is that ciphertext. `RaceInv` is the
strengthening for `KEMAcceptable`: without a race the variable keeps the value of the
first switch until `Encrypt` returns.

The refinement is proved step by step: initial states map to `BoxInit`
(`BoxInitial`); all of `Encrypt` before `Marshal` stutters (`BoxStutters`), `Marshal`
seals (`BoxSealed`); a change of the encoding or an added RecipientInfo stutters or
obstructs (`BoxResegmented`, `BoxObstructed`), damage damages (`BoxDamaged`);
`DecryptCall` opens with an error or stutters (`BoxRefused`), joining stutters
(`BoxJoins`), and `DecryptOpen` opens (`BoxOpened`). Two of these are where the code
could fail. A served reader gets exactly the content key (`ServedGetsKey`: the search
for RSA stops at the first match and the one for KEM goes on past what is not for it,
and the position at which each stops is the least one that `Decides`) and then the
content (`DecryptIntact`, by `CBCInverts` and `UnpadInvertsPad`, or because GCM opens
what it sealed). And whoever does not hold the key gets another key (`ContentKeySound`),
with which GCM opens nothing, and out of damaged GCM content nothing else comes
(`GCMAuthentic`).

`SharedBufferProofs` proves `RecoversContentHolds`: `SBSpec => []RecoversContent`, for
any number of calls, any array, any slices of it (`LayoutAssumption`) and block sizes
from 1 to 16. `RecoversContent` speaks of finished calls. `BufferInv` says of every
call how far it is (`Phase`), and of every call that is independent of all others
(`Alone`) that its cells and the padding it has written still stand (`Undisturbed`)
and that what `CryptBlocks` has read is the front of its padded content (`Progress`).
The condition is about that call and all others only, so calls that do disturb each
other may run beside it. `OtherUndisturbed` is the heart: a byte of padding goes to
the spare capacity of its own slice, which meets neither the cells nor the spare
capacity of an independent one, or, when both calls were given the same slice, is the
byte the other one would write there.

`KeyWrapProofs` proves, for every block cipher and xor that satisfy the
assumptions and inputs of any length,

* `UnwrapInvertsWrapHolds`: `KWSpec => []UnwrapInvertsWrap`,
* `AcceptsOnlyWrapsHolds`: `KWSpec => []AcceptsOnlyWraps`,
* `MatchesRFC3394Holds`: `KWSpec => []MatchesRFC3394`.

The first two say nothing until both calls have ended, and the second call undoes the
first in reverse, so its invariant must speak of what the first one did at each
step. `KWInv` does so through `trace`: buffers at consecutive positions are linked
by `WrapBody` (`Links`), while either call is in its loop the buffer is the one
recorded at its position (`AtLoop`), and the ends of a whole trace are the initial
value with the plain key, and the wrapped key (`WholeTrace`). `BodiesInverse` says
that the two loop bodies invert each other at one position, `CounterRange` that
the counter stays where xor is known; then a second call walks the trace of the
first one, and there is one lemma per action. For `MatchesRFC3394` the invariant
(`RFCInv`) is where the first call stands in the steps of the RFC: before turn `i` of
round `j` the buffer is the registers after `n * j + i - 1` shifts, rotated back by
`i - 1` places (`Rotated`). `ShiftTurns` is one shift against one turn of the inner
loop, `WholeTurn` that `n` turns rotate nothing.

`PaddingProofs` proves `UnpadInvertsPad` and `UnpadAcceptsOnlyPads` for contents
of any length and bytes, for all block sizes from 1 to 16, by cases (the prover
reasons about division by numerals only). The code has 8 and 16; the runs use 2
and 3.

Some definitions need an induction over the naturals: the first certificate or
RecipientInfo that matches (a `CHOOSE` of a least position), the registers of RFC
3394 and the contents of the grammar of BER, recursive functions, the DER that the
grammar writes, and the flag of the loop over extra attributes. The induction rules of the library cannot be used here,
but its least-element principle can (`WFMin` of `WellFoundedInduction`): a set of
numbers that is not empty has a least element. The registers are shown to be defined
by their recursion from the least number of steps for which they would not be
(`RegistersExist`), the contents from the least length (`SolutionExists`); that the
flag stays set is shown from the least entry after which it would not be
(`FlagStays`).

Only model-checked: `Terminates` and `CallsReturn`, which are liveness. Every
invariant and every action property of the passing runs, and the refinement, is a
theorem.

## Not modelled

* `encoding/asn1`, crypto/x509 and the cryptographic primitives: external,
  represented by what the code relies on. Errors that they cannot return here
  (marshalling of values the package built, a failing random source, RSA keys too
  small for a content key in `EncryptPKCS1v15`, `aes.NewCipher` of a key encryption
  key, which always has 32 bytes) are left out.
* The branch of `Parse` for a content in segments: that it takes the first segment is
  one of the changes of the content in transport, and messages that do not decode are
  not parsed.
* `LabelMatchesKey` is about enveloped messages: a pre-shared key is used as it is.
  `RoundTrip` asks for parents that are the issuers of the certificate, so the name
  that `sign.go:173` takes from another parent is outside it.
* CRLs, which are carried and never looked at; direct changes through the pointer
  that `GetSignedData` returns, except `SetUnauthenticatedAttributes`.
* `UnmarshalSignedAttribute` for attributes other than the signing time.
* RSASSA-PSS, DSA and plain EC object identifiers of foreign signers: the tables
  have them (`getSignatureAlgorithm`), but no run has a signer that uses them.
* Inputs of 2^31 bytes and more.
* Tests, interoperability scripts and CI.

## Plan

All invariants of the runs, the refinement, and the action properties are proved.
What is left:

1. Messages that this package did not sign: every combination of signature OID,
   parameters and digest at the verifier, RSASSA-PSS included.
