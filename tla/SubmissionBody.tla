------------------------------ MODULE SubmissionBody ----------------------------
(***************************************************************************)
(* readRequestBody of src/http-utils.js and readSignedTransactionBody of    *)
(* src/gateway.js: a body arrives in chunks the network cuts, and becomes   *)
(* the bytes that are checked and sent to algod, or an error.               *)
(*                                                                          *)
(* Of a JSON body the model keeps its length and what its fields are: the   *)
(* base64 text is its number of characters and of '=' at its end, without   *)
(* the white space the code and Buffer.from both skip.                      *)
(***************************************************************************)
EXTENDS Naturals

CONSTANTS MaxBodyBytes, MaxSent   \* config.security.maxBodyBytes; a bound for TLC

ASSUME BodyAssumption == MaxBodyBytes \in Nat \ {0} /\ MaxSent \in Nat

\* What a body says: raw bytes, or a JSON text.
Contents ==
  [kind : {"bytes", "malformed", "null", "scalar", "otherEncoding", "noString"},
   chars : {0}, pads : {0}]
    \union [kind : {"base64"}, chars : 0..MaxSent, pads : 0..3]

VARIABLE upload   \* [content, length, received, kept, outcome, forwarded]

\* An outcome is a status, or one of these.
Reading == 0
Aborted == 1

\* Mutant: a text may be of any length.
IsStrictBase64AnyLength(c) == c.pads <= 2

IsStrictBase64(c) == (c.chars + c.pads) % 4 # 1 /\ c.pads <= 2

\* Buffer.from: bits that do not fill a byte are dropped.
DecodedLength(c) == (6 * c.chars) \div 8

\* What a whole body is answered with if nothing later refuses it; reading a field
\* of null throws a TypeError.
Status(c, length) ==
  CASE c.kind = "bytes" -> IF length = 0 THEN 400 ELSE 200
    [] c.kind = "null" -> 500
    [] c.kind = "base64" ->
         IF /\ IsStrictBase64(c)
            /\ DecodedLength(c) \in 1..MaxBodyBytes
         THEN 200 ELSE 400
    [] OTHER -> 400

\* The bytes checked and sent.
Forwarded(c, length) ==
  IF Status(c, length) # 200 THEN 0
  ELSE IF c.kind = "bytes" THEN length ELSE DecodedLength(c)

-----------------------------------------------------------------------------
\* A JSON text is longer than the base64 text in it.
UploadInit ==
  upload \in {u \in [content : Contents, length : 0..MaxSent, received : {0}, kept : {0},
                     outcome : {Reading}, forwarded : {0}] :
                u.content.chars + u.content.pads <= u.length}

\* Mutant: the limit is one of each chunk.
TooLargeChunk(total, size) == size > MaxBodyBytes

TooLarge(total, size) == total > MaxBodyBytes

\* One turn of the loop of readRequestBody.
Receive ==
  /\ upload.outcome = Reading
  /\ \E size \in 1..(upload.length - upload.received) :
       LET total == upload.received + size
       IN  upload' = IF TooLarge(total, size)
                     THEN [upload EXCEPT !.received = total, !.outcome = 413]
                     ELSE [upload EXCEPT !.received = total, !.kept = @ + size]

\* The body has ended.
Interpret ==
  /\ upload.outcome = Reading /\ upload.received = upload.length
  /\ upload' = [upload EXCEPT
       !.outcome = Status(upload.content, upload.kept),
       !.forwarded = Forwarded(upload.content, upload.kept)]

\* The client goes away: the loop throws, and nobody hears of it.
Abort ==
  /\ upload.outcome = Reading /\ upload.received < upload.length
  /\ upload' = [upload EXCEPT !.outcome = Aborted]

UploadNext == Receive \/ Interpret \/ Abort

UploadSpec == UploadInit /\ [][UploadNext]_upload

-----------------------------------------------------------------------------
\* What a body becomes does not depend on how the network cuts it: 413 exactly when
\* the whole is over the limit, and the answer of the whole otherwise; and no more
\* than the limit is ever held.
ChunksDoNotMatter ==
  /\ upload.kept <= MaxBodyBytes
  /\ upload.outcome \notin {Reading, Aborted} =>
       upload.outcome = IF upload.length > MaxBodyBytes THEN 413
                        ELSE Status(upload.content, upload.length)

\* The transaction that is checked and forwarded is the one the client wrote: no
\* character of its base64 text is lost, whether the text is padded or not.  (Of a
\* text with padding it has no use for the last character can be: ABCDE= is taken.)
NoCharacterIsLost ==
  LET c == upload.content
  IN  upload.outcome = 200 /\ c.kind = "base64" /\ (c.pads = 0 \/ (c.chars + c.pads) % 4 = 0) =>
        6 * c.chars - 8 * upload.forwarded < 6
=============================================================================
