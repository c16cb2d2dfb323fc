---------------------------- MODULE MCImageValidation ----------------------------
(***************************************************************************)
(* Images for TLC, each of them wrong in one way or in none, and a key file *)
(* with the prefix of ecc-public-key-p256.h and a short point.             *)
(***************************************************************************)
EXTENDS ImageValidation

OurPoint == <<7, 66, 0, 9>>
Image(size, key, r, s, padding, signs) ==
  [magic |-> TRUE, header_size |-> 1, image_size |-> size, tlv_magic |-> TRUE,
   hash_type |-> 16, sig_type |-> 34, signs |-> signs, key |-> key,
   r |-> r, s |-> s, padding |-> padding]

MCImages == {"high", "short", "padded", "damaged", "foreign", "rsa", "header"}
MCContent == [img \in MCImages |->
  CASE img = "high" -> Image(2, OurPoint, <<128, 1>>, <<1, 2>>, 0, img)
    [] img = "short" -> Image(6, OurPoint, <<0, 1>>, <<0, 129>>, 0, img)
    [] img = "padded" -> Image(1, OurPoint, <<200, 0>>, <<0, 3>>, 1, img)
    [] img = "damaged" -> Image(2, OurPoint, <<128, 1>>, <<1, 2>>, 0, "high")
    [] img = "foreign" -> Image(3, <<7, 7, 7, 7>>, <<2, 2>>, <<2, 2>>, 0, img)
    [] img = "rsa" -> [Image(2, OurPoint, <<3, 3>>, <<3, 3>>, 0, img) EXCEPT !.sig_type = 32]
    [] img = "header" -> [Image(1, OurPoint, <<4, 4>>, <<4, 4>>, 0, img)
                            EXCEPT !.header_size = 2]]

\* SubjectPublicKeyInfo of a P-256 key.
MCKeyFile ==
  <<48, 89, 48, 19, 6, 7, 42, 134, 72, 206, 61, 2, 1, 6, 8, 42, 134, 72, 206, 61, 3, 1, 7,
    3, 66, 0, 4>> \o OurPoint

\* The scan of the key file finds its point, although the point holds half a marker:
\* so the images that carry OurPoint are those signed with the key.
ASSUME KeyFound == extract_pub_key = OurPoint /\ "high" \in Trusted
==================================================================================
