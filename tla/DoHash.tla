------------------------------- MODULE DoHash -------------------------------
(***************************************************************************)
(* ra_do_hash_*.c: the response hash in its five variants, of which a build *)
(* links one.  The functions themselves (openssl, blake2s) are external and *)
(* taken as injective: a digest is the name of the function with the bytes  *)
(* that went in.  No caller passes a key.                                   *)
(***************************************************************************)
EXTENDS Sequences

CONSTANT NoDigest      \* RA_ERROR_MEMORY or RA_ERROR_GENERIC

Digest(function, bytes) == [function |-> function, of |-> bytes]

(* Seeded fault: the attested data is left out of what is hashed. *)
ra_do_hash_md5_NoData(nonce, data, app_AID, attestator_number, allocated) ==
    IF ~allocated THEN NoDigest
    ELSE Digest("MD5", nonce \o app_AID \o <<attestator_number>>)

(* Each variant hashes nonce, data, AID and number in this order; it fails  *)
(* when there is no memory for the input or for the digest.                 *)
ra_do_hash_md5(nonce, data, app_AID, attestator_number, allocated) ==
    IF ~allocated THEN NoDigest
    ELSE Digest("MD5", nonce \o data \o app_AID \o <<attestator_number>>)

ra_do_hash_sha1(nonce, data, app_AID, attestator_number, allocated) ==
    IF ~allocated THEN NoDigest
    ELSE Digest("SHA1", nonce \o data \o app_AID \o <<attestator_number>>)

ra_do_hash_sha256(nonce, data, app_AID, attestator_number, allocated) ==
    IF ~allocated THEN NoDigest
    ELSE Digest("SHA256", nonce \o data \o app_AID \o <<attestator_number>>)

ra_do_hash_ripemd160(nonce, data, app_AID, attestator_number, allocated) ==
    IF ~allocated THEN NoDigest
    ELSE Digest("RIPEMD160", nonce \o data \o app_AID \o <<attestator_number>>)

ra_do_hash_blake2(nonce, data, app_AID, attestator_number, allocated) ==
    IF ~allocated THEN NoDigest
    ELSE Digest("BLAKE2s", nonce \o data \o app_AID \o <<attestator_number>>)

(* The variant that is linked. *)
ra_do_hash(variant, nonce, data, app_AID, attestator_number, allocated) ==
    CASE variant = "md5" -> ra_do_hash_md5(nonce, data, app_AID, attestator_number, allocated)
      [] variant = "sha1" -> ra_do_hash_sha1(nonce, data, app_AID, attestator_number, allocated)
      [] variant = "sha256" -> ra_do_hash_sha256(nonce, data, app_AID, attestator_number, allocated)
      [] variant = "ripemd160" ->
            ra_do_hash_ripemd160(nonce, data, app_AID, attestator_number, allocated)
      [] variant = "blake2" -> ra_do_hash_blake2(nonce, data, app_AID, attestator_number, allocated)
=============================================================================
