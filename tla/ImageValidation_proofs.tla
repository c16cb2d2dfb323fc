-------------------------- MODULE ImageValidation_proofs --------------------------
(***************************************************************************)
(* Proofs about ImageValidation: for any images, any key, slots and blocks  *)
(* of any size, nothing is found valid that is not whole and signed.        *)
(***************************************************************************)
EXTENDS ImageValidation, SequenceTheorems, WellFoundedInduction, TLAPS

SlotContent == (Images \X Cells) \cup {Blank}

\* A message fits the slot with the cell behind it, and says whose it is.
LEMMA Messages ==
  ASSUME NEW img \in Images
  PROVE  /\ MessageSize(img) \in 1..(SlotCells - 1)
         /\ DOMAIN Message(img) = 1..MessageSize(img)
         /\ \A n \in 1..MessageSize(img) : Message(img)[n] = <<img, n - 1>>
         /\ Content[img].signs \in Images
<1>1. /\ Content[img].header_size \in Nat \ {0} /\ Content[img].image_size \in Nat
      /\ Content[img].header_size + Content[img].image_size < SlotCells
      /\ Content[img].signs \in Images
  BY ImagesAssumption
<1>2. MessageSize(img) \in 1..(SlotCells - 1)
  BY <1>1, SizesAssumption DEF MessageSize
<1> QED BY <1>1, <1>2 DEF Message

\* Two images with the same message are the same image.
LEMMA MessageNames ==
  ASSUME NEW a \in Images, NEW b \in Images, Message(a) = Message(b)
  PROVE  a = b
<1>1. 1 \in 1..MessageSize(a) /\ 1 \in 1..MessageSize(b) BY Messages, SizesAssumption
<1>2. Message(a)[1] = <<a, 0>> /\ Message(b)[1] = <<b, 0>> BY <1>1, Messages
<1> QED BY <1>2

\* From the start of the hash until the verdict: the header and the trailer were found
\* in order, and the slot does not change.
Hashing == {"enable", "sha_start", "sha_update", "compare", "verify"}
ParsedThen ==
  at \in Hashing => \E img, trailer \in Images : Parsed(img, trailer)

\* What that says of the place and the content of the trailer.
LEMMA Trailer ==
  ASSUME \E img, trailer \in Images : Parsed(img, trailer)
  PROVE  /\ trailer_start \in 1..(SlotCells - 1)
         /\ \E trailer \in Images : slot[trailer_start][1] = trailer
<1>1. PICK img \in Images, trailer \in Images : Parsed(img, trailer)
  OBVIOUS
<1>2. slot[0][1] = img BY <1>1 DEF Parsed, HeaderValid
<1>3. trailer_start = MessageSize(img) BY <1>2 DEF trailer_start
<1>4. slot[trailer_start][1] = trailer BY <1>1, <1>3 DEF Parsed, TrailerValid
<1> QED BY <1>3, <1>4, Messages

\* What was hashed is the beginning of the slot, and no more than the message.
Hashed ==
  /\ at \notin {"sha_update", "compare", "verify", "done", "halted"} => hashed = <<>>
  /\ at \in {"sha_update"} => Len(hashed) + left = trailer_start
  /\ \A n \in 1..Len(hashed) : hashed[n] = slot[n - 1]

\* The digest is that of what was hashed, or none if the crypto block failed before.
Digested ==
  /\ at \notin {"compare", "verify", "done", "halted"} => digest = NoDigest
  /\ at \in {"compare", "verify"} => digest \in {NoDigest, hashed}
  /\ at = "verify" => digest = trailer_hash
  /\ at # "done" => status = "none"

ValidationInv == TypeOK /\ ParsedThen /\ Hashed /\ Digested /\ AcceptsOnlySigned

\* The cells that a call of Sha_Update adds.
Chunk == IF left >= BlockCells THEN BlockCells ELSE left
NextCells == [n \in 1..Chunk |-> slot[Len(hashed) + n - 1]]

\* A chunk of the message is hashed: it ends where it should, in the slot.
LEMMA ChunkHashed ==
  ASSUME ValidationInv, at = "sha_update", left # 0
  PROVE  /\ Chunk \in 1..left
         /\ hashed \o NextCells \in Seq(SlotContent)
         /\ Len(hashed \o NextCells) = Len(hashed) + Chunk
         /\ \A n \in 1..Len(hashed \o NextCells) : (hashed \o NextCells)[n] = slot[n - 1]
<1>1. /\ slot \in [Cells -> SlotContent] /\ left \in 0..SlotCells
      /\ hashed \in Seq(SlotContent)
  BY DEF ValidationInv, TypeOK, SlotContent
<1>2. Chunk \in 1..left BY <1>1, SizesAssumption DEF Chunk
<1>3. Len(hashed) \in Nat BY <1>1, LenProperties
<1>4. Len(hashed) + left \in 1..(SlotCells - 1)
  BY Trailer DEF ValidationInv, ParsedThen, Hashing, Hashed
<1>5. \A n \in 1..Chunk : Len(hashed) + n - 1 \in Cells
  BY <1>1, <1>2, <1>3, <1>4, SizesAssumption DEF Cells
<1>6. NextCells \in [1..Chunk -> SlotContent] BY <1>1, <1>5 DEF NextCells
<1>7. Chunk \in Nat BY <1>1, <1>2, SizesAssumption
<1>8. NextCells \in Seq(SlotContent) /\ Len(NextCells) = Chunk BY <1>6, <1>7
<1>9. /\ hashed \o NextCells \in Seq(SlotContent)
      /\ Len(hashed \o NextCells) = Len(hashed) + Chunk
  BY <1>1, <1>8, ConcatProperties
<1>10. ASSUME NEW n \in 1..Len(hashed \o NextCells)
       PROVE  (hashed \o NextCells)[n] = slot[n - 1]
  <2>1. n \in 1..(Len(hashed) + Len(NextCells)) BY <1>8, <1>9
  <2>2. (hashed \o NextCells)[n] = IF n <= Len(hashed) THEN hashed[n]
                                                      ELSE NextCells[n - Len(hashed)]
    BY <1>1, <1>8, <2>1, ConcatProperties
  <2>3. CASE n <= Len(hashed)
    <3>1. n \in 1..Len(hashed) BY <1>3, <2>1, <2>3
    <3> QED BY <2>2, <2>3, <3>1 DEF ValidationInv, Hashed
  <2>4. CASE ~(n <= Len(hashed))
    <3>1. n - Len(hashed) \in 1..Chunk /\ Len(hashed) + (n - Len(hashed)) - 1 = n - 1
      BY <1>3, <1>7, <1>8, <2>1, <2>4
    <3> QED BY <2>2, <2>4, <3>1 DEF NextCells
  <2> QED BY <2>3, <2>4
<1> QED BY <1>2, <1>9, <1>10

\* A step keeps the types.
LEMMA TypeStep == ValidationInv /\ [Next]_vars => TypeOK'
<1> SUFFICES ASSUME ValidationInv, [Next]_vars PROVE TypeOK'
  OBVIOUS
<1>0. TypeOK BY DEF ValidationInv
<1> USE DEF TypeOK, Engine, Return
<1>1. CASE Parse BY <1>0, <1>1 DEF Parse
<1>2. CASE EnableCrypto BY <1>0, <1>2 DEF EnableCrypto
<1>3. CASE StartSha
  <2>1. trailer_start \in 1..(SlotCells - 1)
    BY <1>3, Trailer DEF StartSha, ValidationInv, ParsedThen, Hashing
  <2>2. left' \in 0..SlotCells BY <1>3, <2>1, SizesAssumption DEF StartSha
  <2> QED BY <1>0, <1>3, <2>2 DEF StartSha
<1>4. CASE UpdateSha
  <2>1. hashed' = hashed \o NextCells /\ left' = left - Chunk
    BY <1>4 DEF UpdateSha, NextCells, Chunk
  <2>2. hashed' \in Seq((Images \X Cells) \cup {Blank}) /\ Chunk \in 1..left
    BY <1>4, <2>1, ChunkHashed DEF UpdateSha, SlotContent
  <2>3. left' \in 0..SlotCells BY <1>0, <2>1, <2>2, SizesAssumption
  <2> QED BY <1>0, <1>4, <2>2, <2>3 DEF UpdateSha
<1>5. CASE FinishSha BY <1>0, <1>5 DEF FinishSha
<1>6. CASE Compare BY <1>0, <1>6 DEF Compare
<1>7. CASE Verify BY <1>0, <1>7 DEF Verify
<1>8. CASE Program
  <2>1. slot' \in [Cells -> (Images \X Cells) \cup {Blank}] BY <1>0, <1>8 DEF Program
  <2> QED BY <1>0, <1>8, <2>1 DEF Program
<1>9. CASE Exit BY <1>0, <1>9 DEF Exit
<1>10. CASE Reset
  <2>1. slot' \in [Cells -> (Images \X Cells) \cup {Blank}] BY <1>0, <1>10 DEF Reset
  <2>2. left' \in 0..SlotCells BY <1>10, SizesAssumption DEF Reset
  <2>3. <<>> \in Seq((Images \X Cells) \cup {Blank}) BY EmptySeq
  <2> QED BY <1>0, <1>10, <2>1, <2>2, <2>3 DEF Reset, NoDigest
<1>11. CASE UNCHANGED vars BY <1>0, <1>11 DEF vars
<1> QED
  BY <1>1, <1>2, <1>3, <1>4, <1>5, <1>6, <1>7, <1>8, <1>9, <1>10, <1>11
  DEF Next, ValidateApp

\* What is true of the slot alone stays true while the slot does.
LEMMA SlotKept ==
  ASSUME UNCHANGED slot
  PROVE  /\ trailer_start' = trailer_start /\ trailer_hash' = trailer_hash
         /\ \A img, trailer \in Images : Parsed(img, trailer)' <=> Parsed(img, trailer)
         /\ \A img \in Images : Carries(img)' <=> Carries(img)
BY DEF trailer_start, trailer_hash, Parsed, HeaderValid, TrailerValid, Carries

\* Nothing is parsed but what was found in order.
LEMMA ParsedStep == ValidationInv /\ [Next]_vars => ParsedThen'
<1> SUFFICES ASSUME ValidationInv, [Next]_vars PROVE ParsedThen'
  OBVIOUS
<1>0. ParsedThen BY DEF ValidationInv
<1> USE SlotKept DEF ParsedThen, Engine, Return, Hashing
<1>1. CASE Parse BY <1>0, <1>1 DEF Parse
<1>2. CASE EnableCrypto BY <1>0, <1>2 DEF EnableCrypto
<1>3. CASE StartSha BY <1>0, <1>3 DEF StartSha
<1>4. CASE UpdateSha BY <1>0, <1>4 DEF UpdateSha
<1>5. CASE FinishSha BY <1>0, <1>5 DEF FinishSha
<1>6. CASE Compare BY <1>0, <1>6 DEF Compare
<1>7. CASE Verify BY <1>0, <1>7 DEF Verify
<1>8. CASE Program BY <1>8 DEF Program
<1>9. CASE Exit BY <1>9 DEF Exit
<1>10. CASE Reset BY <1>10 DEF Reset
<1>11. CASE UNCHANGED vars BY <1>0, <1>11 DEF vars
<1> QED
  BY <1>1, <1>2, <1>3, <1>4, <1>5, <1>6, <1>7, <1>8, <1>9, <1>10, <1>11
  DEF Next, ValidateApp

\* The hash goes on where it stopped, over cells that do not change.
LEMMA HashedStep == ValidationInv /\ [Next]_vars => Hashed'
<1> SUFFICES ASSUME ValidationInv, [Next]_vars PROVE Hashed'
  OBVIOUS
<1>0. Hashed /\ TypeOK BY DEF ValidationInv
<1> USE SlotKept DEF Hashed, Engine, Return
<1>1. CASE Parse BY <1>0, <1>1 DEF Parse
<1>2. CASE EnableCrypto BY <1>0, <1>2 DEF EnableCrypto
<1>3. CASE StartSha
  <2>1. hashed = <<>> /\ hashed' = <<>> /\ slot' = slot /\ left' = trailer_start
    BY <1>0, <1>3 DEF StartSha
  <2>2. trailer_start \in Nat
    BY <1>3, Trailer, SizesAssumption DEF StartSha, ValidationInv, ParsedThen, Hashing
  <2>3. Len(hashed') = 0 BY <2>1
  <2>4. Len(hashed') + left' = trailer_start' BY <2>1, <2>2, <2>3
  <2>5. at' \in {"sha_update", "compare"} BY <1>3 DEF StartSha
  <2> QED BY <2>1, <2>3, <2>4, <2>5
<1>4. CASE UpdateSha
  <2>1. hashed' = hashed \o NextCells /\ left' = left - Chunk /\ slot' = slot
    BY <1>4 DEF UpdateSha, NextCells, Chunk
  <2>2. /\ Chunk \in 1..left /\ Len(hashed') = Len(hashed) + Chunk
        /\ \A n \in 1..Len(hashed') : hashed'[n] = slot'[n - 1]
    BY <1>4, <2>1, ChunkHashed DEF UpdateSha
  <2>3. Len(hashed) \in Nat /\ left \in Nat
    BY <1>0, LenProperties, SizesAssumption DEF TypeOK
  <2>4. Len(hashed') + left' = Len(hashed) + left BY <2>1, <2>2, <2>3
  <2>5. Len(hashed') + left' = trailer_start' BY <1>0, <1>4, <2>1, <2>4 DEF UpdateSha
  <2>6. at' \in {"sha_update", "compare"} BY <1>4 DEF UpdateSha
  <2> QED BY <2>2, <2>5, <2>6
<1>5. CASE FinishSha BY <1>0, <1>5 DEF FinishSha
<1>6. CASE Compare BY <1>0, <1>6 DEF Compare
<1>7. CASE Verify BY <1>0, <1>7 DEF Verify
<1>8. CASE Program
  <2>1. hashed = <<>> /\ hashed' = <<>> /\ at' = "receive" BY <1>0, <1>8 DEF Program
  <2>2. Len(hashed') = 0 BY <2>1
  <2> QED BY <2>1, <2>2
<1>9. CASE Exit BY <1>0, <1>9 DEF Exit
<1>10. CASE Reset
  <2>1. hashed' = <<>> /\ at' = "receive" BY <1>10 DEF Reset
  <2>2. Len(hashed') = 0 BY <2>1
  <2> QED BY <2>1, <2>2
<1>11. CASE UNCHANGED vars BY <1>0, <1>11 DEF vars
<1> QED
  BY <1>1, <1>2, <1>3, <1>4, <1>5, <1>6, <1>7, <1>8, <1>9, <1>10, <1>11
  DEF Next, ValidateApp

\* The digest that is compared and verified is that of the cells hashed.
LEMMA DigestedStep == ValidationInv /\ [Next]_vars => Digested'
<1> SUFFICES ASSUME ValidationInv, [Next]_vars PROVE Digested'
  OBVIOUS
<1>0. Digested BY DEF ValidationInv
<1> USE SlotKept DEF Digested, Engine, Return
<1>1. CASE Parse BY <1>0, <1>1 DEF Parse
<1>2. CASE EnableCrypto BY <1>0, <1>2 DEF EnableCrypto
<1>3. CASE StartSha BY <1>0, <1>3 DEF StartSha
<1>4. CASE UpdateSha BY <1>0, <1>4 DEF UpdateSha
<1>5. CASE FinishSha BY <1>0, <1>5 DEF FinishSha
<1>6. CASE Compare BY <1>0, <1>6 DEF Compare
<1>7. CASE Verify BY <1>0, <1>7 DEF Verify
<1>8. CASE Program BY <1>0, <1>8 DEF Program
<1>9. CASE Exit BY <1>0, <1>9 DEF Exit
<1>10. CASE Reset BY <1>10 DEF Reset
<1>11. CASE UNCHANGED vars BY <1>0, <1>11 DEF vars
<1> QED
  BY <1>1, <1>2, <1>3, <1>4, <1>5, <1>6, <1>7, <1>8, <1>9, <1>10, <1>11
  DEF Next, ValidateApp

\* When the verification begins, the slot carries the image that the trailer signs.
LEMMA VerifiedWhole ==
  ASSUME ValidationInv, at = "verify"
  PROVE  \E img \in Images : Carries(img) /\ digest = Message(img)
<1>1. PICK trailer \in Images : slot[trailer_start][1] = trailer
  BY Trailer DEF ValidationInv, ParsedThen, Hashing
<1> DEFINE img == Content[trailer].signs
<1>2. img \in Images BY Messages
<1>3. digest = Message(img) BY <1>1 DEF ValidationInv, Digested, trailer_hash
<1>4. MessageSize(img) \in Nat \ {0} BY <1>2, Messages, SizesAssumption
<1>5. DOMAIN Message(img) = 1..MessageSize(img) BY <1>2, Messages
<1>6. 1 \in DOMAIN digest BY <1>3, <1>4, <1>5
<1>7. hashed \in Seq(SlotContent) BY DEF ValidationInv, TypeOK, SlotContent
<1>8. digest = hashed
  <2>1. digest \in {NoDigest, hashed} BY DEF ValidationInv, Digested
  <2>2. DOMAIN NoDigest = {} BY DEF NoDigest
  <2> QED BY <1>6, <2>1, <2>2
<1>9. 1..Len(hashed) = 1..MessageSize(img) BY <1>3, <1>5, <1>7, <1>8, LenProperties
<1>10. ASSUME NEW n \in 1..MessageSize(img) PROVE slot[n - 1] = <<img, n - 1>>
  <2>1. n \in 1..Len(hashed) BY <1>9
  <2>2. hashed[n] = slot[n - 1] BY <2>1 DEF ValidationInv, Hashed
  <2>3. hashed[n] = <<img, n - 1>> BY <1>2, <1>3, <1>8, Messages
  <2> QED BY <2>2, <2>3
<1>11. ASSUME NEW c \in 0..(MessageSize(img) - 1) PROVE slot[c] = <<img, c>>
  <2>1. c + 1 \in 1..MessageSize(img) /\ (c + 1) - 1 = c BY <1>4
  <2> QED BY <1>10, <2>1
<1> QED BY <1>2, <1>3, <1>11 DEF Carries

\* A signature that is valid for the hash of an image names a key that signed it.
LEMMA ValidIsTrusted ==
  ASSUME NEW img \in Images, NEW pair,
         SignatureValid(pair, Message(img), extract_pub_key)
  PROVE  img \in Trusted
<1>1. PICK signer \in Images : /\ Message(img) = Message(Content[signer].signs)
                               /\ extract_pub_key = Content[signer].key
  BY DEF SignatureValid
<1>2. Content[signer].signs = img BY <1>1, Messages, MessageNames
<1>3. Content[img].signs = img /\ Content[img].key = extract_pub_key
  BY <1>1, <1>2, ImagesAssumption
<1> QED BY <1>3 DEF Trusted

\* A verdict is right when it is given, and stays right until the reset.
LEMMA AcceptsStep == ValidationInv /\ [Next]_vars => AcceptsOnlySigned'
<1> SUFFICES ASSUME ValidationInv, [Next]_vars PROVE AcceptsOnlySigned'
  OBVIOUS
<1>0. AcceptsOnlySigned /\ Digested BY DEF ValidationInv
<1> USE DEF AcceptsOnlySigned, Digested, Return
<1>1. CASE Parse BY <1>0, <1>1 DEF Parse
<1>2. CASE EnableCrypto BY <1>0, <1>2 DEF EnableCrypto
<1>3. CASE StartSha BY <1>0, <1>3 DEF StartSha
<1>4. CASE UpdateSha BY <1>0, <1>4 DEF UpdateSha
<1>5. CASE FinishSha BY <1>0, <1>5 DEF FinishSha
<1>6. CASE Compare BY <1>0, <1>6 DEF Compare
<1>7. CASE Verify
  <2>1. PICK img \in Images : Carries(img) /\ digest = Message(img)
    BY <1>7, VerifiedWhole DEF Verify
  <2>2. Carries(img)' BY <1>7, <2>1, SlotKept DEF Verify
  <2>3. CASE SignatureValid(ecdsa_signature, digest, extract_pub_key)
    <3>1. img \in Trusted BY <2>1, <2>3, ValidIsTrusted
    <3>2. (img \in Trusted)' BY <3>1 DEF Trusted
    <3> QED BY <2>2, <3>2
  <2>4. CASE status' # "SUCCESS" BY <2>4
  <2>5. CASE failed' = TRUE /\ ~assert' BY <2>2, <2>5
  <2>6. \/ SignatureValid(ecdsa_signature, digest, extract_pub_key)
        \/ status' # "SUCCESS" \/ (failed' = TRUE /\ ~assert')
    BY <1>0, <1>7 DEF Verify
  <2> QED BY <2>3, <2>4, <2>5, <2>6
<1>8. CASE Program BY <1>0, <1>8 DEF Program
<1>9. CASE Exit BY <1>0, <1>9 DEF Exit
<1>10. CASE Reset BY <1>10 DEF Reset
<1>11. CASE UNCHANGED vars
  <2>1. UNCHANGED <<slot, status, assert, failed>> BY <1>11 DEF vars
  <2>2. \A img \in Images : (img \in Trusted)' <=> img \in Trusted BY DEF Trusted
  <2> QED BY <1>0, <2>1, <2>2, SlotKept
<1> QED
  BY <1>1, <1>2, <1>3, <1>4, <1>5, <1>6, <1>7, <1>8, <1>9, <1>10, <1>11
  DEF Next, ValidateApp

\* The inductive invariant.
LEMMA Validation == SafetySpec => []ValidationInv
<1>1. Init => ValidationInv
  <2> SUFFICES ASSUME Init PROVE ValidationInv
    OBVIOUS
  <2>1. slot \in [Cells -> (Images \X Cells) \cup {Blank}] BY DEF Init
  <2>2. 0 \in 0..SlotCells BY SizesAssumption
  <2>3. <<>> \in Seq((Images \X Cells) \cup {Blank}) /\ Len(<<>>) = 0 BY EmptySeq
  <2>4. TypeOK BY <2>1, <2>2, <2>3 DEF Init, TypeOK, NoDigest
  <2>5. ParsedThen BY DEF Init, ParsedThen, Hashing
  <2>6. Hashed BY <2>3 DEF Init, Hashed
  <2>7. Digested /\ AcceptsOnlySigned BY DEF Init, Digested, AcceptsOnlySigned
  <2> QED BY <2>4, <2>5, <2>6, <2>7 DEF ValidationInv
<1>2. ValidationInv /\ [Next]_vars => ValidationInv'
  BY TypeStep, ParsedStep, HashedStep, DigestedStep, AcceptsStep DEF ValidationInv
<1> QED BY <1>1, <1>2, PTL DEF SafetySpec

\* The variables keep their types, whatever is in the slot.
THEOREM TypeCorrect == SafetySpec => []TypeOK
<1>1. ValidationInv => TypeOK BY DEF ValidationInv
<1> QED BY <1>1, Validation, PTL

\* Whatever rows a host mixes in the slot and wherever the crypto block fails, an image
\* is found valid only if it is there to the last cell and signed with the key; in a
\* build without assertions, a failed verification excepted.
THEOREM OnlySigned == SafetySpec => []AcceptsOnlySigned
<1>1. ValidationInv => AcceptsOnlySigned BY DEF ValidationInv
<1> QED BY <1>1, Validation, PTL
-----------------------------------------------------------------------------------
(* The way of a signature through the DER format.                          *)

\* A set of numbers has a least one.
LEMMA Least ==
  ASSUME NEW T \in SUBSET Nat, T # {}
  PROVE  \E least \in T : \A n \in T : least <= n
<1> DEFINE below == OpToRel(<, Nat)
<1>1. IsWellFoundedOn(below, Nat) BY NatLessThanWellFounded
<1>2. \A n, m \in Nat : m < n => <<m, n>> \in below BY DEF OpToRel
<1> HIDE DEF below
<1>3. \E least \in T : \A n \in T : <<n, least>> \notin below BY <1>1, WFMin
<1>4. PICK least \in T : \A n \in T : <<n, least>> \notin below BY <1>3
<1>5. \A n \in T : ~(n < least) BY <1>2, <1>4
<1>6. \A n \in T : least <= n BY <1>5
<1> QED BY <1>6

\* A number that a signature may hold, in as many bytes as a coordinate.
Significant(v) == v \in [1..Width -> Byte] /\ \E n \in 1..Width : v[n] # 0

\* Its length in the DER format.
IntegerLength(v) == Len(DerInteger(v)) - 2

\* It has a first byte that is not zero.
LEMMA FirstByte ==
  ASSUME NEW v, Significant(v)
  PROVE  \E first \in 1..Width : v[first] # 0 /\ \A m \in 1..(first - 1) : v[m] = 0
<1> DEFINE nonzero == {n \in 1..Width : v[n] # 0}
<1>1. nonzero \in SUBSET Nat /\ nonzero # {} BY SizesAssumption DEF Significant
<1> HIDE DEF nonzero
<1>2. PICK first \in nonzero : \A n \in nonzero : first <= n BY <1>1, Least
<1>3. first \in 1..Width /\ v[first] # 0 BY DEF nonzero
<1>4. ASSUME NEW m \in 1..(first - 1), v[m] # 0 PROVE FALSE
  <2>1. m \in 1..Width BY <1>3, SizesAssumption
  <2>2. first <= m BY <1>2, <1>4, <2>1 DEF nonzero
  <2> QED BY <1>3, <2>2, SizesAssumption
<1> QED BY <1>3, <1>4

\* The bytes from the first on, behind a zero if need be, behind their number.
LEMMA IntegerWritten ==
  ASSUME NEW v, Significant(v)
  PROVE  /\ DerInteger(v) \in Seq(Nat) /\ IntegerLength(v) \in 1..(Width + 1)
         /\ Len(DerInteger(v)) = IntegerLength(v) + 2
         /\ DerInteger(v)[1] = 2 /\ DerInteger(v)[2] = IntegerLength(v)
         /\ \A n \in 1..Width :
              IF n > Width - IntegerLength(v)
              THEN DerInteger(v)[n - (Width - IntegerLength(v)) + 2] = v[n]
              ELSE v[n] = 0
<1> DEFINE first == CHOOSE n \in 1..Width : v[n] # 0 /\ \A m \in 1..(n - 1) : v[m] = 0
           bytes == SubSeq(v, first, Width)
           value == IF bytes[1] > 127 THEN <<0>> \o bytes ELSE bytes
<1>0. DerInteger(v) = <<2, Len(value)>> \o value BY DEF DerInteger
<1>1. first \in 1..Width /\ v[first] # 0 /\ \A m \in 1..(first - 1) : v[m] = 0
  BY FirstByte
<1> HIDE DEF first
<1>2. \A n \in 1..Width : v[n] \in Nat
  <2>1. \A n \in 1..Width : v[n] \in Byte BY DEF Significant
  <2>2. Byte \subseteq Nat BY DEF Byte
  <2> QED BY <2>1, <2>2
<1>3. first \in Int /\ Width \in Int /\ 1 <= first /\ first <= Width
  BY <1>1, SizesAssumption
<1>4. \A n \in first..Width : v[n] \in Nat BY <1>2, <1>3
<1>5. /\ bytes \in Seq(Nat) /\ Len(bytes) = Width - first + 1
      /\ \A n \in 1..(Width - first + 1) : bytes[n] = v[first + n - 1]
  BY <1>3, <1>4, SubSeqProperties
<1> HIDE DEF bytes
<1>6. <<0>> \in Seq(Nat) /\ Len(<<0>>) = 1 /\ <<0>>[1] = 0 OBVIOUS
<1>7. /\ <<0>> \o bytes \in Seq(Nat) /\ Len(<<0>> \o bytes) = 1 + Len(bytes)
      /\ \A n \in 1..(1 + Len(bytes)) :
           (<<0>> \o bytes)[n] = IF n <= 1 THEN <<0>>[n] ELSE bytes[n - 1]
  BY <1>5, <1>6, ConcatProperties
<1>8. /\ value \in Seq(Nat) /\ Len(value) \in 1..(Width + 1)
      /\ \A n \in 1..Width :
           IF n > Width - Len(value) THEN value[n - (Width - Len(value))] = v[n]
                                     ELSE v[n] = 0
  <2>1. CASE bytes[1] > 127
    <3>1. value = <<0>> \o bytes BY <2>1
    <3>2. Len(value) = Width - first + 2 BY <1>3, <1>5, <1>7, <3>1
    <3>3. Len(value) \in 1..(Width + 1) BY <1>3, <3>2
    <3>4. ASSUME NEW n \in 1..Width
          PROVE  IF n > first - 2 THEN value[n - (first - 2)] = v[n] ELSE v[n] = 0
      <4>1. CASE n > first - 1
        <5>1. n - (first - 2) \in 1..(1 + Len(bytes)) /\ ~(n - (first - 2) <= 1)
          BY <1>3, <1>5, <4>1
        <5>2. value[n - (first - 2)] = bytes[n - (first - 2) - 1] BY <1>7, <3>1, <5>1
        <5>3. n - (first - 2) - 1 \in 1..(Width - first + 1)
          BY <1>3, <4>1
        <5>4. bytes[n - (first - 2) - 1] = v[first + (n - (first - 2) - 1) - 1]
          BY <1>5, <5>3
        <5>5. first + (n - (first - 2) - 1) - 1 = n BY <1>3
        <5>6. n > first - 2 BY <1>3, <4>1
        <5> QED BY <5>2, <5>4, <5>5, <5>6
      <4>2. CASE n = first - 1
        <5>1. n - (first - 2) = 1 /\ n > first - 2 BY <1>3, <4>2
        <5>2. 1 \in 1..(1 + Len(bytes)) BY <1>3, <1>5
        <5>3. value[1] = 0 BY <1>6, <1>7, <3>1, <5>2
        <5>4. v[n] = 0 BY <1>1, <1>3, <4>2
        <5> QED BY <5>1, <5>3, <5>4
      <4>3. CASE n < first - 1
        <5>1. v[n] = 0 /\ ~(n > first - 2) BY <1>1, <1>3, <4>3
        <5> QED BY <5>1
      <4>4. n > first - 1 \/ n = first - 1 \/ n < first - 1 BY <1>3
      <4> QED BY <4>1, <4>2, <4>3, <4>4
    <3>5. Width - Len(value) = first - 2 BY <1>3, <3>2
    <3> HIDE DEF value
    <3>6. \A n \in 1..Width : IF n > Width - Len(value)
                              THEN value[n - (Width - Len(value))] = v[n] ELSE v[n] = 0
      BY <3>4, <3>5
    <3> QED BY <1>7, <3>1, <3>3, <3>6
  <2>2. CASE ~(bytes[1] > 127)
    <3>1. value = bytes BY <2>2
    <3>2. Len(value) = Width - first + 1 BY <1>5, <3>1
    <3>3. Len(value) \in 1..(Width + 1) BY <1>3, <3>2
    <3>4. ASSUME NEW n \in 1..Width
          PROVE  IF n > first - 1 THEN value[n - (first - 1)] = v[n] ELSE v[n] = 0
      <4>1. CASE n > first - 1
        <5>1. n - (first - 1) \in 1..(Width - first + 1) BY <1>3, <4>1
        <5>2. value[n - (first - 1)] = v[first + (n - (first - 1)) - 1]
          BY <1>5, <3>1, <5>1
        <5>3. first + (n - (first - 1)) - 1 = n BY <1>3
        <5> QED BY <4>1, <5>2, <5>3
      <4>2. CASE ~(n > first - 1)
        <5>1. n \in 1..(first - 1) BY <1>3, <4>2
        <5> QED BY <1>1, <4>2, <5>1
      <4> QED BY <4>1, <4>2
    <3>5. Width - Len(value) = first - 1 BY <1>3, <3>2
    <3> HIDE DEF value
    <3>6. \A n \in 1..Width : IF n > Width - Len(value)
                              THEN value[n - (Width - Len(value))] = v[n] ELSE v[n] = 0
      BY <3>4, <3>5
    <3> QED BY <1>5, <3>1, <3>3, <3>6
  <2> QED BY <2>1, <2>2
<1> HIDE DEF value
<1>9. /\ <<2, Len(value)>> \in Seq(Nat) /\ Len(<<2, Len(value)>>) = 2
      /\ <<2, Len(value)>>[1] = 2 /\ <<2, Len(value)>>[2] = Len(value)
  <2>1. Len(value) \in Nat BY <1>8, SizesAssumption
  <2> QED BY <2>1
<1>10. /\ DerInteger(v) \in Seq(Nat) /\ Len(DerInteger(v)) = 2 + Len(value)
       /\ \A n \in 1..(2 + Len(value)) :
            DerInteger(v)[n] = IF n <= 2 THEN <<2, Len(value)>>[n] ELSE value[n - 2]
  BY <1>0, <1>8, <1>9, ConcatProperties
<1>11. Len(value) \in Int /\ Len(value) >= 1 BY <1>8, SizesAssumption
<1>12. IntegerLength(v) = Len(value) BY <1>10, <1>11 DEF IntegerLength
<1>13. DerInteger(v)[1] = 2 /\ DerInteger(v)[2] = Len(value)
  <2>1. 1 \in 1..(2 + Len(value)) /\ 2 \in 1..(2 + Len(value)) BY <1>11
  <2> QED BY <1>9, <1>10, <2>1
<1>14. ASSUME NEW n \in 1..Width
       PROVE  IF n > Width - Len(value) THEN DerInteger(v)[n - (Width - Len(value)) + 2] = v[n]
                                        ELSE v[n] = 0
  <2>1. CASE n > Width - Len(value)
    <3>1. PICK k \in Int : k = n - (Width - Len(value)) + 2 BY <1>3, <1>11
    <3>2. DerInteger(v)[k] = value[k - 2]
      <4>1. k \in 1..(2 + Len(value)) /\ ~(k <= 2) BY <1>3, <1>11, <2>1, <3>1
      <4> QED BY <1>10, <4>1
    <3>4. k - 2 = n - (Width - Len(value)) BY <1>3, <1>11, <3>1
    <3>3. value[n - (Width - Len(value))] = v[n] BY <1>8, <2>1
    <3> QED BY <2>1, <3>1, <3>2, <3>3, <3>4
  <2>2. CASE ~(n > Width - Len(value)) BY <1>8, <2>2
  <2> QED BY <2>1, <2>2
<1>15. Len(DerInteger(v)) = Len(value) + 2 BY <1>10, <1>11
<1> QED BY <1>8, <1>10, <1>12, <1>13, <1>14, <1>15

\* The lengths of r and s of an image.
RLen(img) == IntegerLength(Content[img].r)
SLen(img) == IntegerLength(Content[img].s)

\* What is joined lies one behind the other.
LEMMA Joined ==
  ASSUME NEW a \in Seq(Nat), NEW b \in Seq(Nat)
  PROVE  /\ a \o b \in Seq(Nat) /\ Len(a \o b) = Len(a) + Len(b)
         /\ Len(a) \in Nat /\ Len(b) \in Nat
         /\ \A k \in 1..Len(a) : (a \o b)[k] = a[k]
         /\ \A k \in 1..Len(b) : (a \o b)[k + Len(a)] = b[k]
<1>1. Len(a) \in Nat /\ Len(b) \in Nat BY LenProperties
<1>2. /\ a \o b \in Seq(Nat) /\ Len(a \o b) = Len(a) + Len(b)
      /\ \A k \in 1..(Len(a) + Len(b)) :
           (a \o b)[k] = IF k <= Len(a) THEN a[k] ELSE b[k - Len(a)]
  BY ConcatProperties
<1>3. ASSUME NEW k \in 1..Len(a) PROVE (a \o b)[k] = a[k]
  <2>1. k \in 1..(Len(a) + Len(b)) /\ k <= Len(a) BY <1>1
  <2> QED BY <1>2, <2>1
<1>4. ASSUME NEW k \in 1..Len(b) PROVE (a \o b)[k + Len(a)] = b[k]
  <2>1. PICK m \in Int : m = k + Len(a) BY <1>1
  <2>2. m \in 1..(Len(a) + Len(b)) /\ ~(m <= Len(a)) /\ m - Len(a) = k BY <1>1, <2>1
  <2> QED BY <1>2, <2>1, <2>2
<1> QED BY <1>1, <1>2, <1>3, <1>4

\* Where things are in the signature of an image, and that it fits a byte.
LEMMA SignatureWritten ==
  ASSUME NEW img \in Images, Content[img].signs = img
  PROVE  LET der == DerSignature(img)
         IN  /\ RLen(img) \in 1..(Width + 1) /\ SLen(img) \in 1..(Width + 1)
             /\ Len(der) \in (RLen(img) + SLen(img) + 6)..254
             /\ der[1] = 48 /\ der[2] = RLen(img) + SLen(img) + 4
             /\ \A k \in 1..(RLen(img) + 2) : der[k + 2] = DerInteger(Content[img].r)[k]
             /\ \A k \in 1..(SLen(img) + 2) :
                  der[k + RLen(img) + 4] = DerInteger(Content[img].s)[k]
<1> DEFINE a == DerInteger(Content[img].r)
           b == DerInteger(Content[img].s)
           body == a \o b
           head == <<48, Len(body)>>
           padding == Content[img].padding
           pad == [n \in 1..padding |-> 0]
           der == head \o body \o pad
<1>0. DerSignature(img) = der BY DEF DerSignature
<1>1. Significant(Content[img].r) /\ Significant(Content[img].s) /\ padding \in Nat
  BY SignaturesAssumption DEF Significant
<1>2. /\ a \in Seq(Nat) /\ RLen(img) \in 1..(Width + 1) /\ Len(a) = RLen(img) + 2
      /\ b \in Seq(Nat) /\ SLen(img) \in 1..(Width + 1) /\ Len(b) = SLen(img) + 2
  BY <1>1, IntegerWritten DEF RLen, SLen
<1>3. RLen(img) \in Nat /\ SLen(img) \in Nat BY <1>2, SizesAssumption
<1>4. Len(der) < 255 BY <1>0, SignaturesAssumption
<1>5. /\ body \in Seq(Nat) /\ Len(body) = Len(a) + Len(b)
      /\ \A k \in 1..Len(a) : body[k] = a[k]
      /\ \A k \in 1..Len(b) : body[k + Len(a)] = b[k]
  <2> HIDE DEF a, b
  <2> QED BY <1>2, Joined
<1> HIDE DEF a, b, padding, body
<1>6. Len(body) = RLen(img) + SLen(img) + 4 /\ Len(body) \in Nat BY <1>2, <1>3, <1>5
<1>7. head \in Seq(Nat) /\ Len(head) = 2 /\ head[1] = 48 /\ head[2] = Len(body)
  BY <1>6
<1>8. pad \in Seq(Nat) /\ Len(pad) = padding
  <2>1. pad \in [1..padding -> Nat] OBVIOUS
  <2> QED BY <1>1, <2>1
<1> HIDE DEF head, pad
<1> DEFINE front == head \o body
<1>9. /\ front \in Seq(Nat) /\ Len(front) = 2 + Len(body)
      /\ \A k \in 1..2 : front[k] = head[k]
      /\ \A k \in 1..Len(body) : front[k + 2] = body[k]
  <2>1. /\ front \in Seq(Nat) /\ Len(front) = Len(head) + Len(body)
        /\ \A k \in 1..Len(head) : front[k] = head[k]
        /\ \A k \in 1..Len(body) : front[k + Len(head)] = body[k]
    BY <1>5, <1>7, Joined
  <2> HIDE DEF front
  <2> QED BY <1>7, <2>1
<1>10. der = front \o pad OBVIOUS
<1> HIDE DEF front, der
<1>11. /\ Len(der) = 2 + Len(body) + padding
       /\ \A k \in 1..(2 + Len(body)) : der[k] = front[k]
  <2>1. /\ Len(front \o pad) = Len(front) + Len(pad)
        /\ \A k \in 1..Len(front) : (front \o pad)[k] = front[k]
    BY <1>8, <1>9, Joined
  <2> QED BY <1>8, <1>9, <1>10, <2>1
<1>12. Len(der) \in (RLen(img) + SLen(img) + 6)..254
  <2>1. Len(der) = 2 + (RLen(img) + SLen(img) + 4) + padding BY <1>6, <1>11
  <2> QED BY <1>1, <1>3, <1>4, <2>1
<1>13. ASSUME NEW k \in 1..Len(body) PROVE der[k + 2] = body[k]
  <2>1. k + 2 \in 1..(2 + Len(body)) BY <1>6
  <2> QED BY <1>9, <1>11, <2>1
<1>14. der[1] = 48 /\ der[2] = RLen(img) + SLen(img) + 4
  <2>1. 1 \in 1..(2 + Len(body)) /\ 2 \in 1..(2 + Len(body)) /\ 1 \in 1..2 /\ 2 \in 1..2
    BY <1>6
  <2> QED BY <1>6, <1>7, <1>9, <1>11, <2>1
<1>15. ASSUME NEW k \in 1..(RLen(img) + 2) PROVE der[k + 2] = a[k]
  <2>1. k \in 1..Len(a) BY <1>2
  <2>2. k \in 1..Len(body) BY <1>3, <1>6
  <2> QED BY <1>5, <1>13, <2>1, <2>2
<1>16. ASSUME NEW k \in 1..(SLen(img) + 2) PROVE der[k + RLen(img) + 4] = b[k]
  <2>1. PICK m \in Int : m = k + RLen(img) + 2 BY <1>3
  <2>2. m \in 1..Len(body) /\ m + 2 = k + RLen(img) + 4 BY <1>3, <1>6, <2>1
  <2>3. m = k + Len(a) /\ k \in 1..Len(b)
    <3>1. Len(a) = RLen(img) + 2 /\ Len(b) = SLen(img) + 2 BY <1>2
    <3> QED BY <1>3, <2>1, <3>1
  <2> QED BY <1>5, <1>13, <2>2, <2>3
<1> QED BY <1>0, <1>2, <1>12, <1>14, <1>15, <1>16 DEF a, b

\* What is read from the copy is what imgtool wrote.
LEMMA SignatureCopied ==
  ASSUME NEW img \in Images, Content[img].signs = img
  PROVE  \A n \in 0..(Len(DerSignature(img)) - 1) :
           ByteAt(CopiedSignature(img), n) = DerSignature(img)[n + 1]
<1> DEFINE der == DerSignature(img)
           signature_length == Len(der) % 256
           even == (signature_length + (signature_length % 2)) % 256
           copied == [n \in 1..even |-> ByteAt(der, n - 1)]
<1>1. CopiedSignature(img) = copied BY DEF CopiedSignature
<1>2. Len(der) \in 0..254
  <2>1. RLen(img) \in 1..(Width + 1) /\ SLen(img) \in 1..(Width + 1)
    BY SignatureWritten
  <2>2. Len(der) \in (RLen(img) + SLen(img) + 6)..254 BY SignatureWritten
  <2> HIDE DEF der
  <2>3. RLen(img) \in Nat /\ SLen(img) \in Nat BY <2>1, SizesAssumption
  <2>4. \A low \in Nat : low..254 \subseteq 0..254 OBVIOUS
  <2>5. RLen(img) + SLen(img) + 6 \in Nat BY <2>3
  <2> QED BY <2>2, <2>4, <2>5
<1> HIDE DEF der
<1>3. even \in Nat /\ Len(der) <= even
  <2>1. ASSUME NEW n \in 0..254
        PROVE  (n + (n % 2)) % 256 \in Nat /\ n <= (n + (n % 2)) % 256 /\ n % 256 = n
    <3>1. n % 2 \in {0, 1} /\ n % 256 = n OBVIOUS
    <3>2. \A m \in 0..255 : m % 256 = m OBVIOUS
    <3>3. n % 2 = 1 => n # 254 OBVIOUS
    <3>4. n + (n % 2) \in 0..255 BY <3>1, <3>3
    <3> QED BY <3>1, <3>2, <3>4
  <2> DEFINE n == Len(der)
  <2>2. n \in 0..254 BY <1>2
  <2> HIDE DEF n
  <2>3. (n + (n % 2)) % 256 \in Nat /\ n <= (n + (n % 2)) % 256 /\ n % 256 = n
    BY <2>1, <2>2
  <2>4. ((n % 256) + ((n % 256) % 2)) % 256 = (n + (n % 2)) % 256 BY <2>3
  <2>5. even \in Nat /\ n <= even BY <2>3, <2>4 DEF n
  <2> QED BY <2>5 DEF n
<1> HIDE DEF even
<1>4. ASSUME NEW n \in 0..(Len(der) - 1) PROVE ByteAt(copied, n) = der[n + 1]
  <2>1. Len(copied) = even BY <1>3
  <2>2. n + 1 \in 1..even /\ (n + 1) - 1 = n /\ n < even /\ n < Len(der)
    <3>1. Len(der) \in Nat BY <1>2
    <3>2. n \in Nat /\ n < Len(der) BY <3>1
    <3> QED BY <1>3, <3>1, <3>2
  <2>3. copied[n + 1] = ByteAt(der, n) BY <2>2
  <2> HIDE DEF copied
  <2> QED BY <2>1, <2>2, <2>3 DEF ByteAt
<1> QED BY <1>1, <1>4 DEF der

\* A field is filled with the number whose DER integer lies at its offset.
LEMMA FieldFilled ==
  ASSUME NEW sign_in, NEW offset \in Nat, NEW v, Significant(v),
         \A k \in 1..IntegerLength(v) :
           ByteAt(sign_in, offset + k - 1) = DerInteger(v)[k + 2]
  PROVE  Field(sign_in, offset, IntegerLength(v)) = v
<1> DEFINE len == IntegerLength(v)
<1>1. len \in Int /\ 1 <= len /\ len <= Width + 1 /\ Width \in Int
  BY IntegerWritten, SizesAssumption
<1>2. ASSUME NEW n \in 1..Width PROVE Field(sign_in, offset, len)[n] = v[n]
  <2>1. CASE n > Width - len
    <3>1. PICK k \in Int : k = n - (Width - len) BY <1>1
    <3>2. k \in 1..len /\ offset + n - 1 - (Width - len) = offset + k - 1
      BY <1>1, <2>1, <3>1
    <3>3. Field(sign_in, offset, len)[n] = ByteAt(sign_in, offset + k - 1)
      BY <2>1, <3>2 DEF Field
    <3>4. DerInteger(v)[k + 2] = v[n] BY <2>1, <3>1, IntegerWritten
    <3> QED BY <3>2, <3>3, <3>4
  <2>2. CASE ~(n > Width - len)
    <3>1. v[n] = 0 BY <2>2, IntegerWritten
    <3> QED BY <2>2, <3>1 DEF Field
  <2> QED BY <2>1, <2>2
<1>3. /\ Field(sign_in, offset, len) = [n \in 1..Width |-> Field(sign_in, offset, len)[n]]
      /\ v = [n \in 1..Width |-> v[n]]
  BY DEF Field, Significant
<1> QED BY <1>2, <1>3

\* A signature of imgtool comes out of the conversion as the numbers it was made of.
LEMMA SignatureDecoded ==
  ASSUME NEW img \in Images, Content[img].signs = img
  PROVE  Decoded[img] = <<Content[img].r, Content[img].s>>
<1> DEFINE sign_in == CopiedSignature(img)
           r == Content[img].r
           s == Content[img].s
           der == DerSignature(img)
           r_len == RLen(img)
           s_len == SLen(img)
<1>1. Decoded[img] = signature_der_to_asn1(sign_in) BY DEF Decoded
<1>2. /\ Significant(r) /\ Significant(s)
      /\ DerInteger(r)[1] = 2 /\ DerInteger(r)[2] = r_len
      /\ DerInteger(s)[1] = 2 /\ DerInteger(s)[2] = s_len
  BY SignaturesAssumption, IntegerWritten DEF Significant, RLen, SLen
<1>3. /\ r_len \in 1..(Width + 1) /\ s_len \in 1..(Width + 1)
      /\ Len(der) \in (r_len + s_len + 6)..254
      /\ der[1] = 48 /\ der[2] = r_len + s_len + 4
      /\ \A k \in 1..(r_len + 2) : der[k + 2] = DerInteger(r)[k]
      /\ \A k \in 1..(s_len + 2) : der[k + r_len + 4] = DerInteger(s)[k]
  BY SignatureWritten
<1>4. \A n \in 0..(Len(der) - 1) : ByteAt(sign_in, n) = der[n + 1] BY SignatureCopied
<1>5. r = Content[img].r /\ s = Content[img].s
      /\ r_len = IntegerLength(r) /\ s_len = IntegerLength(s)
  BY DEF RLen, SLen
<1> HIDE DEF sign_in, r, s, der, r_len, s_len
<1>6. /\ r_len \in Nat /\ s_len \in Nat /\ r_len >= 1 /\ s_len >= 1 /\ Len(der) \in Nat
      /\ Len(der) >= r_len + s_len + 6
  BY <1>3, SizesAssumption
<1>7. ASSUME NEW k \in 1..(r_len + 2) PROVE ByteAt(sign_in, k + 1) = DerInteger(r)[k]
  <2>1. k + 1 \in 0..(Len(der) - 1) /\ (k + 1) + 1 = k + 2 BY <1>6
  <2>2. ByteAt(sign_in, k + 1) = der[k + 2] BY <1>4, <2>1
  <2>3. der[k + 2] = DerInteger(r)[k] BY <1>3
  <2> QED BY <2>2, <2>3
<1>8. ASSUME NEW k \in 1..(s_len + 2)
      PROVE  ByteAt(sign_in, k + r_len + 3) = DerInteger(s)[k]
  <2>1. k + r_len + 3 \in 0..(Len(der) - 1) /\ (k + r_len + 3) + 1 = k + r_len + 4 BY <1>6
  <2>2. ByteAt(sign_in, k + r_len + 3) = der[k + r_len + 4] BY <1>4, <2>1
  <2>3. der[k + r_len + 4] = DerInteger(s)[k] BY <1>3
  <2> QED BY <2>2, <2>3
<1>9. ByteAt(sign_in, 0) = 48 /\ ByteAt(sign_in, 1) = r_len + s_len + 4
  <2>1. /\ 0 \in 0..(Len(der) - 1) /\ 1 \in 0..(Len(der) - 1) /\ 0 + 1 = 1 /\ 1 + 1 = 2
    BY <1>6
  <2>2. ByteAt(sign_in, 0) = der[1] /\ ByteAt(sign_in, 1) = der[2] BY <1>4, <2>1
  <2>3. der[1] = 48 /\ der[2] = r_len + s_len + 4 BY <1>3
  <2> QED BY <2>2, <2>3
<1>10. ByteAt(sign_in, 2) = 2 /\ ByteAt(sign_in, 3) = r_len
  <2>1. 1 \in 1..(r_len + 2) /\ 2 \in 1..(r_len + 2) /\ 1 + 1 = 2 /\ 2 + 1 = 3 BY <1>6
  <2> QED BY <1>2, <1>7, <2>1
<1>11. ByteAt(sign_in, 4 + r_len) = 2 /\ ByteAt(sign_in, 4 + r_len + 1) = s_len
  <2>1. /\ 1 \in 1..(s_len + 2) /\ 2 \in 1..(s_len + 2)
        /\ 1 + r_len + 3 = 4 + r_len /\ 2 + r_len + 3 = 4 + r_len + 1
    BY <1>6
  <2> QED BY <1>2, <1>8, <2>1
<1>12. Field(sign_in, 4, r_len) = r
  <2>1. ASSUME NEW k \in 1..r_len PROVE ByteAt(sign_in, 4 + k - 1) = DerInteger(r)[k + 2]
    <3>1. k + 2 \in 1..(r_len + 2) /\ (k + 2) + 1 = 4 + k - 1 BY <1>6
    <3> QED BY <1>7, <3>1
  <2> QED BY <1>2, <1>5, <2>1, FieldFilled
<1>13. Field(sign_in, 4 + r_len + 2, s_len) = s
  <2>1. ASSUME NEW k \in 1..s_len
        PROVE  ByteAt(sign_in, (4 + r_len + 2) + k - 1) = DerInteger(s)[k + 2]
    <3>1. k + 2 \in 1..(s_len + 2) /\ (k + 2) + r_len + 3 = (4 + r_len + 2) + k - 1
      BY <1>6
    <3> QED BY <1>8, <3>1
  <2>2. 4 + r_len + 2 \in Nat BY <1>6
  <2> QED BY <1>2, <1>5, <2>1, <2>2, FieldFilled
<1>14. signature_der_to_asn1(sign_in) = <<Field(sign_in, 4, r_len),
                                          Field(sign_in, 4 + r_len + 2, s_len)>>
  BY <1>6, <1>9, <1>10, <1>11 DEF signature_der_to_asn1
<1> QED BY <1>1, <1>5, <1>12, <1>13, <1>14

-----------------------------------------------------------------------------------
(* An image that was signed with the key is not turned away.               *)

\* The slot holds an image of ours, and the crypto block has not failed so far.
Expected == ~failed /\ \E img \in Trusted : WellFormed(img) /\ Holds(img)

\* Then the hash goes to the end of the message, and the verdict is the right one.
Forward ==
  Expected =>
    /\ at \in {"compare", "verify"} => digest = hashed /\ Len(hashed) = trailer_start
    /\ at = "done" => status = "SUCCESS"

\* An image in the slot is found by its header and its trailer.
LEMMA ImageFound ==
  ASSUME NEW img \in Trusted, WellFormed(img), Holds(img)
  PROVE  /\ img \in Images /\ Content[img].signs = img /\ Content[img].key = extract_pub_key
         /\ Parsed(img, img)
         /\ trailer_start = MessageSize(img) /\ trailer_hash = Message(img)
         /\ ecdsa_signature = <<Content[img].r, Content[img].s>>
<1>1. img \in Images /\ Content[img].signs = img /\ Content[img].key = extract_pub_key
  BY DEF Trusted
<1>2. MessageSize(img) \in 1..(SlotCells - 1) BY <1>1, Messages
<1>3. 0 \in Cells /\ MessageSize(img) \in Cells BY <1>2, SizesAssumption DEF Cells
<1>4. slot[0] = <<img, 0>> /\ slot[MessageSize(img)] = <<img, MessageSize(img)>>
  BY <1>3 DEF Holds
<1>5. Parsed(img, img) BY <1>4 DEF Parsed, HeaderValid, TrailerValid, WellFormed
<1>6. trailer_start = MessageSize(img) BY <1>4 DEF trailer_start
<1>7. trailer_hash = Message(img) BY <1>1, <1>4, <1>6 DEF trailer_hash
<1>8. ecdsa_signature = <<Content[img].r, Content[img].s>>
  BY <1>1, <1>4, <1>6, SignatureDecoded DEF ecdsa_signature
<1> QED BY <1>1, <1>5, <1>6, <1>7, <1>8

\* What was hashed of it to the end is its message.
LEMMA HashedWhole ==
  ASSUME ValidationInv, NEW img \in Trusted, WellFormed(img), Holds(img),
         Len(hashed) = trailer_start
  PROVE  hashed = Message(img)
<1>1. img \in Images /\ Len(hashed) = MessageSize(img) BY ImageFound
<1>2. MessageSize(img) \in 1..(SlotCells - 1) BY <1>1, Messages
<1>3. hashed \in Seq(SlotContent) BY DEF ValidationInv, TypeOK, SlotContent
<1>4. hashed \in [1..MessageSize(img) -> SlotContent] BY <1>1, <1>3, LenProperties
<1>5. ASSUME NEW n \in 1..MessageSize(img) PROVE hashed[n] = <<img, n - 1>>
  <2>1. n - 1 \in Cells BY <1>2, SizesAssumption DEF Cells
  <2>2. hashed[n] = slot[n - 1] BY <1>1 DEF ValidationInv, Hashed
  <2> QED BY <2>1, <2>2 DEF Holds
<1> QED BY <1>4, <1>5 DEF Message

\* No step turns away what is expected.
LEMMA ForwardStep == ValidationInv /\ Forward /\ [Next]_vars => Forward'
<1> SUFFICES ASSUME ValidationInv, Forward, [Next]_vars, Expected' PROVE
      /\ at' \in {"compare", "verify"} =>
           digest' = hashed' /\ Len(hashed') = trailer_start'
      /\ at' = "done" => status' = "SUCCESS"
  BY DEF Forward
<1>0. Digested /\ Hashed /\ TypeOK BY DEF ValidationInv
<1>kept. ASSUME failed' = FALSE => failed = FALSE, UNCHANGED slot
      PROVE  Expected /\ trailer_start' = trailer_start
  BY <1>kept, SlotKept DEF Expected, Holds, WellFormed, Trusted, MessageSize, TypeOK
<1> USE DEF Engine, Return
<1>1. CASE Parse
  <2>1. Expected BY <1>1, <1>kept DEF Parse
  <2>2. \E img \in Images : Parsed(img, img) BY <2>1, ImageFound DEF Expected
  <2>3. at' = "enable" BY <1>1, <2>2 DEF Parse
  <2> QED BY <2>3
<1>2. CASE EnableCrypto
  <2>1. at' \in {"sha_start", "halted"} BY <1>2 DEF EnableCrypto
  <2> QED BY <2>1
<1>3. CASE StartSha
  <2>1. at' = "sha_update" BY <1>3 DEF StartSha, Expected
  <2> QED BY <2>1
<1>4. CASE UpdateSha
  <2>1. at' = "sha_update" BY <1>4 DEF UpdateSha, Expected
  <2> QED BY <2>1
<1>5. CASE FinishSha
  <2>1. at' = "compare" /\ UNCHANGED <<slot, hashed>> /\ left = 0 /\ at = "sha_update"
    BY <1>5 DEF FinishSha
  <2>2. digest' = hashed BY <1>5 DEF FinishSha, Expected
  <2>3. Len(hashed) = trailer_start
    <3>1. Len(hashed) + 0 = trailer_start BY <1>0, <2>1 DEF Hashed
    <3>2. Len(hashed) \in Nat BY <1>0, LenProperties DEF TypeOK
    <3> QED BY <3>1, <3>2
  <2>4. trailer_start' = trailer_start BY <2>1, SlotKept
  <2> QED BY <2>1, <2>2, <2>3, <2>4
<1>6. CASE Compare
  <2>1. UNCHANGED <<slot, hashed, digest, failed>> /\ at = "compare" BY <1>6 DEF Compare
  <2>2. Expected /\ trailer_start' = trailer_start BY <2>1, <1>kept
  <2>3. digest = hashed /\ Len(hashed) = trailer_start BY <2>1, <2>2 DEF Forward
  <2>4. PICK img \in Trusted : WellFormed(img) /\ Holds(img) BY <2>2 DEF Expected
  <2>5. digest = trailer_hash BY <2>3, <2>4, HashedWhole, ImageFound
  <2>6. at' = "verify" BY <1>6, <2>5 DEF Compare
  <2> QED BY <2>1, <2>2, <2>3, <2>6
<1>7. CASE Verify
  <2>1. UNCHANGED <<slot, failed>> /\ at = "verify" /\ at' = "done"
    BY <1>7 DEF Verify, Expected
  <2>2. Expected BY <2>1, <1>kept
  <2>3. PICK img \in Trusted : WellFormed(img) /\ Holds(img) BY <2>2 DEF Expected
  <2>4. digest = Message(img) BY <1>0, <2>1, <2>3, ImageFound DEF Digested
  <2>5. SignatureValid(ecdsa_signature, digest, extract_pub_key)
    <3>1. /\ img \in Images /\ ecdsa_signature = <<Content[img].r, Content[img].s>>
          /\ digest = Message(Content[img].signs) /\ extract_pub_key = Content[img].key
      BY <2>3, <2>4, ImageFound
    <3> QED BY <3>1 DEF SignatureValid
  <2>6. status' = "SUCCESS" BY <1>7, <2>5 DEF Verify, Expected
  <2> QED BY <2>1, <2>6
<1>8. CASE Program
  <2>1. at' = "receive" BY <1>8 DEF Program
  <2> QED BY <2>1
<1>9. CASE Exit
  <2>1. at' = "parse" BY <1>9 DEF Exit
  <2> QED BY <2>1
<1>10. CASE Reset
  <2>1. at' = "receive" BY <1>10 DEF Reset
  <2> QED BY <2>1
<1>11. CASE UNCHANGED vars
  <2>1. UNCHANGED <<at, slot, hashed, digest, failed, status>> BY <1>11 DEF vars
  <2>2. Expected /\ trailer_start' = trailer_start BY <2>1, <1>kept
  <2> QED BY <2>1, <2>2 DEF Forward
<1> QED
  BY <1>1, <1>2, <1>3, <1>4, <1>5, <1>6, <1>7, <1>8, <1>9, <1>10, <1>11
  DEF Next, ValidateApp

\* Every image that was signed with the key and is in the slot to the last cell is found
\* valid unless the crypto block fails: whatever the lengths of r and s, of the signature
\* and its padding, and however many blocks the message is long.
THEOREM EverySigned == SafetySpec => []AcceptsEverySigned
<1>1. Init => Forward BY DEF Init, Forward
<1>2. Forward => AcceptsEverySigned BY DEF Forward, Expected, AcceptsEverySigned
<1> QED BY <1>1, <1>2, ForwardStep, Validation, PTL DEF SafetySpec

===================================================================================
