---------------------------- MODULE RustMessages ----------------------------
(***************************************************************************)
(* crates/protocol/src/lib.rs: what the Rust side signs, and the checks it *)
(* makes before it believes a message.                                     *)
(*                                                                         *)
(* Text is a sequence of bytes, an Option a sequence of at most one value. *)
(* Every number of the model is below 256, so its big-endian form is that  *)
(* byte after zeros.  SHA-256 is ideal: a digest is the text it is of.     *)
(***************************************************************************)
EXTENDS Naturals, Sequences

CONSTANT NonceLen  \* NONCE_LEN

ProtocolVersion == 1
Decisions   == {"approved", "denied", "unavailable", "cancelled", "failed"}
AuthMethods == {"watch", "touch-id", "biometric-or-watch", "unknown", "none"}

\* REQUEST_DOMAIN and RESPONSE_DOMAIN.
RequestDomain  == <<1>>
ResponseDomain == <<2>>

\* The spellings that serde accepts for SignatureAlgorithm, and canonical_name.
\* "ED25519" stands for a spelling that differs in case, "p256" for any other.
AlgorithmSpellings == {"ed25519"}
AlgorithmName == <<69>>

DecisionName(d) ==
  CASE d = "approved"    -> <<11>>
    [] d = "denied"      -> <<12>>
    [] d = "unavailable" -> <<13>>
    [] d = "cancelled"   -> <<14>>
    [] d = "failed"      -> <<15>>

\* 21 stands for "touchid", 22 for "touch-id", the spelling in the JSON text.
MethodName(m) ==
  CASE m = "watch"              -> <<20>>
    [] m = "touch-id"           -> <<21>>
    [] m = "biometric-or-watch" -> <<23>>
    [] m = "unknown"            -> <<24>>
    [] m = "none"               -> <<25>>

BigEndian(n, width) == [i \in 1..width |-> IF i = width THEN n ELSE 0]
EncodeU16(n) == BigEndian(n, 2)
EncodeU32(n) == BigEndian(n, 4)
EncodeU64(n) == BigEndian(n, 8)

EncodeBytes(s) == EncodeU32(Len(s)) \o s
EncodeStr(s)   == EncodeBytes(s)

EncodeOptionalStr(o) ==
  IF o = <<>> THEN <<0>> ELSE <<1>> \o EncodeStr(o[1])

EncodeOptionalU32(o) ==
  IF o = <<>> THEN <<0>> ELSE <<1>> \o EncodeU32(o[1])

\* AuthRequestBody::validate; the type of alg leaves nothing to check there.
Validate(b) ==
  /\ b.protocol_version = ProtocolVersion
  /\ Len(b.nonce) = NonceLen
  /\ b.created_at_ms < b.expires_at_ms

\* AuthResponseBody::validate.
ValidateResponse(r) ==
  /\ r.protocol_version = ProtocolVersion
  /\ Len(r.nonce) = NonceLen
  /\ r.created_at_ms < r.expires_at_ms

\* AuthRequestBody::canonical_bytes of a body that passes validate.
RequestBytes(b) ==
     EncodeBytes(RequestDomain)
  \o EncodeU16(b.protocol_version)
  \o EncodeStr(b.request_id)
  \o EncodeBytes(b.nonce)
  \o EncodeU64(b.created_at_ms)
  \o EncodeU64(b.expires_at_ms)
  \o EncodeStr(b.linux_host_id)
  \o EncodeStr(b.linux_hostname)
  \o EncodeStr(b.pam_service)
  \o EncodeStr(b.pam_user)
  \o EncodeOptionalStr(b.pam_ruser)
  \o EncodeOptionalStr(b.pam_rhost)
  \o EncodeOptionalStr(b.pam_tty)
  \o EncodeOptionalStr(b.sudo_command)
  \o EncodeOptionalU32(b.client_pid)
  \o EncodeStr(b.key_id)
  \o EncodeStr(AlgorithmName)

\* AuthResponseBody::canonical_bytes of a body that passes validate.
ResponseBytes(r) ==
     EncodeBytes(ResponseDomain)
  \o EncodeU16(r.protocol_version)
  \o EncodeStr(r.request_id)
  \o EncodeBytes(r.nonce)
  \o EncodeBytes(r.request_hash)
  \o EncodeStr(r.linux_host_id)
  \o EncodeStr(r.pam_service)
  \o EncodeStr(r.pam_user)
  \o EncodeStr(DecisionName(r.decision))
  \o EncodeStr(MethodName(r.auth_method))
  \o EncodeU64(r.created_at_ms)
  \o EncodeU64(r.expires_at_ms)
  \o EncodeStr(r.agent_key_id)
  \o EncodeStr(AlgorithmName)
  \o EncodeOptionalStr(r.error_code)
  \o EncodeOptionalStr(r.error_message)

Sha256(b) == RequestBytes(b)

\* AuthRequestBody::sign: an ideal signature names its key and its text.
Sign(b, key) == [key |-> key, text |-> RequestBytes(b)]

\* AuthResponseBody::for_request and sign, for the development agent.
ForRequest(b, decision, method, created, expires, key_id) ==
  [protocol_version |-> b.protocol_version, request_id |-> b.request_id,
   nonce |-> b.nonce, request_hash |-> Sha256(b),
   linux_host_id |-> b.linux_host_id, pam_service |-> b.pam_service,
   pam_user |-> b.pam_user, decision |-> decision, auth_method |-> method,
   created_at_ms |-> created, expires_at_ms |-> expires, agent_key_id |-> key_id,
   alg |-> "ed25519", error_code |-> <<>>, error_message |-> <<>>]
SignResponse(r, key) == [key |-> key, text |-> ResponseBytes(r)]

\* What serde accepts as an AuthRequestBody, and SignedAuthRequest::verify.
DecodesRequest(b) == b.alg \in AlgorithmSpellings
VerifyRequest(b, signature, key) ==
  /\ Validate(b)
  /\ signature = Sign(b, key)

\* What serde accepts as an AuthResponseBody.
Decodes(r) ==
  /\ r.alg \in AlgorithmSpellings
  /\ r.decision \in Decisions
  /\ r.auth_method \in AuthMethods

\* SignedAuthResponse::verify.
Verify(r, signature, key) ==
  /\ ValidateResponse(r)
  /\ signature = SignResponse(r, key)

\* Mutant of VerifyBinding: leaves out the nonce and the hash.
VerifyBindingByName(r, b) ==
  /\ r.request_id = b.request_id
  /\ r.linux_host_id = b.linux_host_id
  /\ r.pam_service = b.pam_service
  /\ r.pam_user = b.pam_user

VerifyBinding(r, b) ==
  /\ r.request_id = b.request_id
  /\ r.nonce = b.nonce
  /\ r.request_hash = Sha256(b)
  /\ r.linux_host_id = b.linux_host_id
  /\ r.pam_service = b.pam_service
  /\ r.pam_user = b.pam_user

\* verify_freshness of both bodies.
VerifyFreshness(m, now, skew) ==
  /\ now <= m.expires_at_ms
  /\ m.created_at_ms <= now + skew
=============================================================================
