--------------------------- MODULE SwiftMessages ----------------------------
(***************************************************************************)
(* The message types of agent/Sources/MacosAuthAgent/main.swift: what the  *)
(* agent signs, and the checks it makes on a request.  It is a second      *)
(* implementation of RustMessages, with which it shares no code; text,     *)
(* options, numbers and digests are represented as there.                  *)
(***************************************************************************)
EXTENDS Naturals, Sequences

CONSTANT NonceLen  \* nonceLength

SupportedProtocolVersion == 1

\* requestDomain and responseDomain.
RequestDomain  == <<1>>
ResponseDomain == <<2>>

\* Mutant of CanonicalAlgorithmName: the name in lower case, as in the JSON text.
CanonicalAlgorithmNameAsSpelled(alg) ==
  IF alg \in {"ed25519", "ED25519"} THEN <<(<<101>>)>> ELSE <<>>

\* canonicalAlgorithmName, an Option: the spelling's case does not matter.
CanonicalAlgorithmName(alg) ==
  IF alg \in {"ed25519", "ED25519"} THEN <<(<<69>>)>> ELSE <<>>

DecisionRawValue(d) ==
  CASE d = "approved"    -> <<11>>
    [] d = "denied"      -> <<12>>
    [] d = "unavailable" -> <<13>>
    [] d = "cancelled"   -> <<14>>
    [] d = "failed"      -> <<15>>

\* AuthMethod.canonicalName: the raw value, but "touchid" (21) for touchID.
CanonicalName(m) ==
  CASE m = "watch"              -> <<20>>
    [] m = "touch-id"           -> <<21>>
    [] m = "biometric-or-watch" -> <<23>>
    [] m = "unknown"            -> <<24>>
    [] m = "none"               -> <<25>>

Shifted(n, width) == [i \in 1..width |-> IF i = width THEN n ELSE 0]
EncodeUInt16(n) == Shifted(n, 2)
EncodeUInt32(n) == Shifted(n, 4)
EncodeUInt64(n) == Shifted(n, 8)

EncodeBytes(s)  == EncodeUInt32(Len(s)) \o s
EncodeString(s) == EncodeBytes(s)

EncodeOptionalString(o) ==
  IF o = <<>> THEN <<0>> ELSE <<1>> \o EncodeString(o[1])

EncodeOptionalUInt32(o) ==
  IF o = <<>> THEN <<0>> ELSE <<1>> \o EncodeUInt32(o[1])

\* AuthRequestBody.validate.
Validate(b) ==
  /\ b.protocol_version = SupportedProtocolVersion
  /\ CanonicalAlgorithmName(b.alg) # <<>>
  /\ Len(b.nonce) = NonceLen
  /\ b.created_at_ms < b.expires_at_ms

\* AuthRequestBody.canonicalBytes of a body that passes validate.
CanonicalBytes(b) ==
     EncodeBytes(RequestDomain)
  \o EncodeUInt16(b.protocol_version)
  \o EncodeString(b.request_id)
  \o EncodeBytes(b.nonce)
  \o EncodeUInt64(b.created_at_ms)
  \o EncodeUInt64(b.expires_at_ms)
  \o EncodeString(b.linux_host_id)
  \o EncodeString(b.linux_hostname)
  \o EncodeString(b.pam_service)
  \o EncodeString(b.pam_user)
  \o EncodeOptionalString(b.pam_ruser)
  \o EncodeOptionalString(b.pam_rhost)
  \o EncodeOptionalString(b.pam_tty)
  \o EncodeOptionalString(b.sudo_command)
  \o EncodeOptionalUInt32(b.client_pid)
  \o EncodeString(b.key_id)
  \o EncodeString(CanonicalAlgorithmName(b.alg)[1])

Sha256(b) == CanonicalBytes(b)

\* Mutant of ValidSignature: any key will do.
ValidSignatureAnyKey(b, signature, key) ==
  /\ Validate(b)
  /\ signature.text = CanonicalBytes(b)

\* verifyRequest, up to the signature: canonicalBytes throws when validate does.
ValidSignature(b, signature, key) ==
  /\ Validate(b)
  /\ signature = [key |-> key, text |-> CanonicalBytes(b)]

\* AuthRequestBody.verifyFreshness: expired already at expiresAtMs.
VerifyFreshness(b, now, skew) ==
  /\ now < b.expires_at_ms
  /\ \/ b.created_at_ms <= now
     \/ b.created_at_ms - now <= skew

Lesser(m, n) == IF m < n THEN m ELSE n

\* AuthResponseBody.forRequest, for now < expires_at_ms.
ForRequest(b, decision, now, life, keyId) ==
  [protocol_version |-> b.protocol_version,
   request_id       |-> b.request_id,
   nonce            |-> b.nonce,
   request_hash     |-> Sha256(b),
   linux_host_id    |-> b.linux_host_id,
   pam_service      |-> b.pam_service,
   pam_user         |-> b.pam_user,
   decision         |-> decision,
   auth_method      |-> IF decision = "approved" THEN "biometric-or-watch" ELSE "none",
   created_at_ms    |-> now,
   expires_at_ms    |-> now + Lesser(life, b.expires_at_ms - now),
   agent_key_id     |-> keyId,
   alg              |-> "ed25519",
   error_code       |-> <<>>,
   error_message    |-> <<>>]

\* AuthResponseBody.validate.
ValidateResponse(r) ==
  /\ r.protocol_version = SupportedProtocolVersion
  /\ CanonicalAlgorithmName(r.alg) # <<>>
  /\ Len(r.nonce) = NonceLen
  /\ r.created_at_ms < r.expires_at_ms

\* AuthResponseBody.canonicalBytes of a body that passes validate.
ResponseBytes(r) ==
     EncodeBytes(ResponseDomain)
  \o EncodeUInt16(r.protocol_version)
  \o EncodeString(r.request_id)
  \o EncodeBytes(r.nonce)
  \o EncodeBytes(r.request_hash)
  \o EncodeString(r.linux_host_id)
  \o EncodeString(r.pam_service)
  \o EncodeString(r.pam_user)
  \o EncodeString(DecisionRawValue(r.decision))
  \o EncodeString(CanonicalName(r.auth_method))
  \o EncodeUInt64(r.created_at_ms)
  \o EncodeUInt64(r.expires_at_ms)
  \o EncodeString(r.agent_key_id)
  \o EncodeString(CanonicalAlgorithmName(r.alg)[1])
  \o EncodeOptionalString(r.error_code)
  \o EncodeOptionalString(r.error_message)

\* An optional detail is shown when it is there and not empty.
Detail(o) == IF o \in {<<>>, <<(<<>>)>>} THEN <<>> ELSE o

\* localAuthenticationReason: what LocalAuthentication shows.  The remote host and
\* the host id are not in it.
LocalAuthenticationReason(b) ==
  [service |-> b.pam_service, host |-> b.linux_hostname, user |-> b.pam_user,
   requester |-> Detail(b.pam_ruser), tty |-> Detail(b.pam_tty),
   command |-> Detail(b.sudo_command)]

\* confirmationText: what the user sees in the alert, in its order.
ConfirmationText(b) ==
  [host |-> b.linux_hostname, hostId |-> b.linux_host_id,
   service |-> b.pam_service, user |-> b.pam_user,
   requester |-> Detail(b.pam_ruser), remoteHost |-> Detail(b.pam_rhost),
   tty |-> Detail(b.pam_tty), command |-> Detail(b.sudo_command),
   id |-> b.request_id]
=============================================================================
