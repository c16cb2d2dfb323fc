------------------------------ MODULE ImageValidation ------------------------------
(***************************************************************************)
(* Cy_DFU_ValidateApp: is the image in the secondary slot whole and signed  *)
(* with the key whose public half is compiled into the application?  The    *)
(* host programs rows of any images in any order, so that the slot may hold  *)
(* a header of one image and the trailer of another.  The crypto block may   *)
(* report an error at every call.                                          *)
(*                                                                         *)
(* Flash is divided into cells: HeaderCells for the header, the payload,    *)
(* one for the TLV area behind it.  A cell holds <<image, number>>; hashing  *)
(* is the sequence of the cells hashed, and a signature is valid for the    *)
(* digest and the key it was made with, as a pair of numbers r and s.       *)
(***************************************************************************)
EXTENDS Integers, Sequences

CONSTANTS Images,       \* images a host may send
          Content,      \* what is in them: see ImageRecord
          Blank,        \* content of an erased cell
          SlotCells,    \* size of the secondary slot
          RowCells,     \* size of a row
          HeaderCells,  \* MCUBOOT_HEADER_SIZE
          BlockCells,   \* CY_CRYPTO_SHA256_BLOCK_SIZE
          Width,        \* CRYPTO_SIGN_RS_SIZE: bytes of r, of s and of a coordinate
          KeyFile,      \* ecdsa_pub_key, DER
          Asserts       \* the builds: does CY_ASSERT stop the program?

Byte == 0..255
ImageRecord ==
  [magic : BOOLEAN, header_size : Nat \ {0}, image_size : Nat,     \* header
   tlv_magic : BOOLEAN, hash_type : Nat, sig_type : Nat,           \* TLV area
   signs : Images,              \* the image whose hash and signature it carries
   key : Seq(Byte),             \* the point of the key that signed it
   r : [1..Width -> Byte], s : [1..Width -> Byte],
   padding : Nat]               \* bytes that pad the DER signature

ASSUME SizesAssumption ==
  /\ RowCells \in Nat \ {0} /\ HeaderCells \in Nat \ {0} /\ BlockCells \in Nat \ {0}
  /\ SlotCells \in Nat /\ Width \in Nat \ {0}
  /\ Asserts \subseteq BOOLEAN
\* imgtool signs no image that does not fit the slot.  A TLV area copied from another
\* image carries the signature of that image.
ASSUME ImagesAssumption ==
  \A img \in Images :
    /\ \A field \in {"magic", "tlv_magic"} : Content[img][field] \in BOOLEAN
    /\ Content[img].header_size \in Nat \ {0} /\ Content[img].image_size \in Nat
    /\ Content[img].header_size + Content[img].image_size < SlotCells
    /\ Content[img].signs \in Images
    /\ LET signed == Content[img].signs
       IN  Content[signed].signs = signed /\ Content[signed].key = Content[img].key

VARIABLES
  assert,     \* the build
  at,         \* where the validation is
  slot,       \* the cells of the secondary slot
  left,       \* message_size in calculate_sha256_digest: what is still to be hashed
  hashed,     \* the cells hashed so far
  digest,     \* calc_sha256_digest
  failed,     \* has the crypto block reported an error?
  status      \* result of Cy_DFU_ValidateApp

vars == <<assert, at, slot, left, hashed, digest, failed, status>>

Cells == 0..(SlotCells - 1)
IMAGE_TLV_SHA256 == 16
IMAGE_TLV_ECDSA256 == 34
NoDigest == <<>>

\* The message that is hashed and signed, and the cell behind it.
MessageSize(img) == Content[img].header_size + Content[img].image_size
Message(img) == [n \in 1..MessageSize(img) |-> <<img, n - 1>>]

-----------------------------------------------------------------------------------
(* The signature and the key.                                              *)

\* A byte of a buffer, counted from 0; what lies behind it is anything.
ByteAt(buffer, n) == IF n < Len(buffer) THEN buffer[n + 1] ELSE 255

\* How imgtool writes a signature.  A DER integer has no leading zeros, except one
\* that keeps the first bit clear.
DerInteger(v) ==
  LET first == CHOOSE n \in 1..Width : v[n] # 0 /\ \A m \in 1..(n - 1) : v[m] = 0
      bytes == SubSeq(v, first, Width)
      value == IF bytes[1] > 127 THEN <<0>> \o bytes ELSE bytes
  IN  <<2, Len(value)>> \o value
DerSignature(img) ==
  LET body == DerInteger(Content[img].r) \o DerInteger(Content[img].s)
  IN  <<48, Len(body)>> \o body \o [n \in 1..Content[img].padding |-> 0]

\* Neither r nor s of a signature is 0; and the length of what imgtool writes, 72 bytes
\* at the most for the Width of P-256, fits the uint8_t it is read into and rounded up in.
ASSUME SignaturesAssumption ==
  \A img \in Images : Content[img].signs = img =>
    /\ \A v \in {Content[img].r, Content[img].s} :
         v \in [1..Width -> Byte] /\ \E n \in 1..Width : v[n] # 0
    /\ Content[img].padding \in Nat
    /\ Len(DerSignature(img)) < 255

\* signature_length is a uint8_t, rounded up to an even number.
CopiedSignature(img) ==
  LET der == DerSignature(img)
      signature_length == Len(der) % 256
      even == (signature_length + (signature_length % 2)) % 256
  IN  [n \in 1..even |-> ByteAt(der, n - 1)]

\* Fault: r and s are copied to the left end of their fields.
Field_Left(sign_in, offset, len) ==
  [n \in 1..Width |-> IF n <= len THEN ByteAt(sign_in, offset + n - 1) ELSE 0]

\* The last Width bytes of an integer, behind zeros if it is shorter.
Field(sign_in, offset, len) ==
  [n \in 1..Width |-> IF n > Width - len THEN ByteAt(sign_in, offset + n - 1 - (Width - len))
                                         ELSE 0]

Zeros == [n \in 1..Width |-> 0]
Unset == [n \in 1..Width |-> 255]    \* never written: no signature of anything

\* The result is not looked at, only what is left in sign_out.
signature_der_to_asn1(sign_in) ==
  LET sign_len == ByteAt(sign_in, 1)
      r_len == ByteAt(sign_in, 3)
      s_marker == 4 + r_len
      s_len == ByteAt(sign_in, s_marker + 1)
      well_formed == /\ ByteAt(sign_in, 2) = 2 /\ ByteAt(sign_in, s_marker) = 2
                     /\ r_len + s_len + 4 = sign_len
  IN  CASE ByteAt(sign_in, 0) # 48 -> <<Unset, Unset>>
        [] ByteAt(sign_in, 0) = 48 /\ ~well_formed -> <<Zeros, Zeros>>
        [] OTHER -> <<Field(sign_in, 4, r_len), Field(sign_in, s_marker + 2, s_len)>>

\* What becomes of the signature that an image carries.
Decoded == [img \in Images |-> signature_der_to_asn1(CopiedSignature(Content[img].signs))]

\* extract_pub_key(): the point behind the first 42 00 04, found by a pointer that
\* skips the 00 of a marker that does not go on with 04.
extract_pub_key ==
  LET length == Len(KeyFile) % 256
      Marker(n) == ByteAt(KeyFile, n) = 66 /\ ByteAt(KeyFile, n + 1) = 0
      scan[ptr \in 0..(2 * length), bytes_read \in 0..length] ==
        CASE bytes_read = 0 -> <<>>
          [] bytes_read # 0 /\ Marker(ptr) /\ ByteAt(KeyFile, ptr + 2) = 4 ->
               [n \in 1..(2 * Width) |-> ByteAt(KeyFile, ptr + 2 + n)]
          [] OTHER -> scan[IF Marker(ptr) THEN ptr + 2 ELSE ptr + 1, bytes_read - 1]
  IN  scan[0, length]

\* Cy_Crypto_Core_ECC_VerifyHash.
SignatureValid(pair, hash, key) ==
  \E img \in Images :
    /\ pair = <<Content[img].r, Content[img].s>>
    /\ hash = Message(Content[img].signs) /\ key = Content[img].key

-----------------------------------------------------------------------------------
(* What the validation reads from the slot.                                *)

\* The image whose header is at the start of the slot, with the right magic and size.
HeaderValid(img) ==
  /\ slot[0] = <<img, 0>>
  /\ Content[img].magic /\ Content[img].header_size = HeaderCells

\* A TLV area where that header says it is.
TrailerValid(img, trailer) ==
  /\ slot[MessageSize(img)] = <<trailer, MessageSize(trailer)>>
  /\ Content[trailer].tlv_magic
  /\ Content[trailer].hash_type = IMAGE_TLV_SHA256      \* and length
  /\ Content[trailer].sig_type = IMAGE_TLV_ECDSA256

Parsed(img, trailer) == HeaderValid(img) /\ TrailerValid(img, trailer)
trailer_start == MessageSize(slot[0][1])
trailer_hash == Message(Content[slot[trailer_start][1]].signs)
ecdsa_signature == Decoded[slot[trailer_start][1]]

-----------------------------------------------------------------------------------
(* Cy_DFU_ValidateApp().                                                   *)

Return(result) == at' = "done" /\ status' = result

Parse ==
  /\ at = "parse"
  /\ IF \E img, trailer \in Images : Parsed(img, trailer)
     THEN at' = "enable" /\ UNCHANGED status
     ELSE Return("ERROR_VERIFY")
  /\ UNCHANGED <<assert, slot, left, hashed, digest, failed>>

\* A call of the crypto block succeeds or reports an error; CY_ASSERT looks at some.
Engine(ok, next_if_ok, next_if_failed) ==
  /\ at' = IF ok THEN next_if_ok ELSE next_if_failed
  /\ failed' = (failed \/ ~ok)

EnableCrypto ==
  /\ at = "enable"
  /\ \E ok \in BOOLEAN : Engine(ok, "sha_start", IF assert THEN "halted" ELSE "sha_start")
  /\ UNCHANGED <<assert, slot, left, hashed, digest, status>>

\* calculate_sha256_digest(), which tells nobody that it failed: the digest is zero
\* then.  Sha_Init and Sha_Start are one step.
StartSha ==
  /\ at = "sha_start"
  /\ \E ok \in BOOLEAN : Engine(ok, "sha_update", "compare")
  /\ left' = trailer_start
  /\ UNCHANGED <<assert, slot, hashed, digest, status>>

\* Fault: the last block is a whole one too.
UpdateSha_WholeBlocks ==
  /\ at = "sha_update" /\ left # 0
  /\ hashed' = hashed \o [n \in 1..BlockCells |-> slot[(Len(hashed) + n - 1) % SlotCells]]
  /\ left' = left - BlockCells
  /\ \E ok \in BOOLEAN : Engine(ok, "sha_update", "compare")
  /\ UNCHANGED <<assert, slot, digest, status>>

\* Fault: an error starts the hash over.
UpdateSha_Retries ==
  /\ at = "sha_update" /\ left # 0
  /\ \/ /\ LET chunk_size == IF left >= BlockCells THEN BlockCells ELSE left
           IN  /\ hashed' = hashed \o [n \in 1..chunk_size |-> slot[Len(hashed) + n - 1]]
               /\ left' = left - chunk_size
        /\ Engine(TRUE, "sha_update", "sha_start")
     \/ Engine(FALSE, "sha_update", "sha_start") /\ left' = 0 /\ hashed' = <<>>
  /\ UNCHANGED <<assert, slot, digest, status>>

UpdateSha ==
  /\ at = "sha_update" /\ left # 0
  /\ LET chunk_size == IF left >= BlockCells THEN BlockCells ELSE left
     IN  /\ hashed' = hashed \o [n \in 1..chunk_size |-> slot[Len(hashed) + n - 1]]
         /\ left' = left - chunk_size
  /\ \E ok \in BOOLEAN : Engine(ok, "sha_update", "compare")
  /\ UNCHANGED <<assert, slot, digest, status>>

\* Sha_Finish; whether Sha_Free succeeds does not matter any more.
FinishSha ==
  /\ at = "sha_update" /\ left = 0
  /\ \E ok \in BOOLEAN :
       Engine(ok, "compare", "compare") /\ digest' = IF ok THEN hashed ELSE digest
  /\ UNCHANGED <<assert, slot, left, hashed, status>>

\* Fault: the hash in the trailer is verified, not the one that was calculated.
Compare_TrailerHash ==
  /\ at = "compare"
  /\ at' = "verify" /\ digest' = trailer_hash
  /\ UNCHANGED <<assert, slot, left, hashed, failed, status>>

Compare ==
  /\ at = "compare"
  /\ IF digest = trailer_hash THEN at' = "verify" /\ UNCHANGED status
                              ELSE Return("ERROR_VERIFY")
  /\ UNCHANGED <<assert, slot, left, hashed, digest, failed>>

\* After an error of the crypto block validation_status is not initialised, and only
\* an assertion keeps it from being looked at.
Verify ==
  /\ at = "verify"
  /\ \/ /\ Return(IF SignatureValid(ecdsa_signature, digest, extract_pub_key)
                  THEN "SUCCESS" ELSE "ERROR_VERIFY")
        /\ UNCHANGED failed
     \/ /\ failed' = TRUE
        /\ IF assert THEN at' = "halted" /\ UNCHANGED status
                     ELSE \E result \in {"SUCCESS", "ERROR_VERIFY"} : Return(result)
  /\ UNCHANGED <<assert, slot, left, hashed, digest>>

ValidateApp == Parse \/ EnableCrypto \/ StartSha \/ UpdateSha \/ FinishSha
                 \/ Compare \/ Verify

-----------------------------------------------------------------------------------
(* The host, and what follows a validation.                                *)

Program ==
  /\ at = "receive"
  /\ \E img \in Images, row \in 0..((SlotCells - 1) \div RowCells) :
       slot' = [c \in Cells |-> IF c \div RowCells = row THEN <<img, c>> ELSE slot[c]]
  /\ UNCHANGED <<assert, at, left, hashed, digest, failed, status>>

Exit ==
  /\ at = "receive"
  /\ at' = "parse"
  /\ UNCHANGED <<assert, slot, left, hashed, digest, failed, status>>

\* Cy_DFU_ExecuteApp, whatever the result, or a power cycle.  The bootloader leaves the
\* slot as it is or erases it.
Reset ==
  /\ at \in {"done", "halted"}
  /\ slot' \in {slot, [c \in Cells |-> Blank]}
  /\ at' = "receive" /\ left' = 0 /\ hashed' = <<>> /\ digest' = NoDigest
  /\ failed' = FALSE /\ status' = "none"
  /\ UNCHANGED assert

Init ==
  /\ assert \in Asserts
  /\ at = "receive" /\ slot = [c \in Cells |-> Blank]
  /\ left = 0 /\ hashed = <<>> /\ digest = NoDigest
  /\ failed = FALSE /\ status = "none"

Next == ValidateApp \/ Program \/ Exit \/ Reset

SafetySpec == Init /\ [][Next]_vars
\* dfu_task goes on; the host and the power owe nothing.
Spec == SafetySpec /\ WF_vars(ValidateApp)

-----------------------------------------------------------------------------------
TypeOK ==
  /\ assert \in Asserts
  /\ at \in {"receive", "parse", "enable", "sha_start", "sha_update", "compare",
             "verify", "done", "halted"}
  /\ slot \in [Cells -> (Images \X Cells) \cup {Blank}]
  /\ left \in 0..SlotCells
  /\ hashed \in Seq((Images \X Cells) \cup {Blank})
  /\ digest \in Seq((Images \X Cells) \cup {Blank})
  /\ failed \in BOOLEAN
  /\ status \in {"none", "SUCCESS", "ERROR_VERIFY"}

\* Signed by imgtool with our key; and in the format that the build asks it for.
Trusted == {img \in Images : Content[img].signs = img /\ Content[img].key = extract_pub_key}
WellFormed(img) ==
  /\ Content[img].magic /\ Content[img].tlv_magic /\ Content[img].header_size = HeaderCells
  /\ Content[img].hash_type = IMAGE_TLV_SHA256 /\ Content[img].sig_type = IMAGE_TLV_ECDSA256

\* Is everything that was hashed and signed there?
Carries(img) == \A c \in 0..(MessageSize(img) - 1) : slot[c] = <<img, c>>
Holds(img) == \A c \in Cells : slot[c] = <<img, c>>

\* Only an image that is there to the last cell and signed with the key is found valid:
\* not the header of one image over the payload or trailer of another, not one changed
\* after signing, and not because the crypto block failed, which
\* calculate_sha256_digest() reports to nobody (dfu_user.c:310, :448).  An error of the
\* verification in a build without assertions leaves validation_status open
\* (dfu_user.c:413): then the image is whole, but may be signed by anybody.
AcceptsOnlySigned ==
  status = "SUCCESS" =>
    \E img \in Images : Carries(img) /\ (img \in Trusted \/ (~assert /\ failed))

\* Every image signed with the key is found valid: r and s of any length, signatures of
\* odd length or padded, messages that are no multiple of a block (dfu_user.c:332-346).
AcceptsEverySigned ==
  at = "done" /\ ~failed /\ (\E img \in Trusted : WellFormed(img) /\ Holds(img))
    => status = "SUCCESS"

\* The validation comes to an end or stops at an assertion.
ValidationReturns == at = "parse" ~> at \in {"done", "halted"}
====================================================================================
