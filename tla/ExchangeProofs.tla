--------------------------- MODULE ExchangeProofs ---------------------------
(***************************************************************************)
(* What the messages of a transaction are about, proved for all texts,     *)
(* hosts, keys and agents.                                                 *)
(*                                                                         *)
(* The texts that are signed determine the messages they are of: each      *)
(* field is written by an encoder whose output says where it ends (a fixed *)
(* width, a length, a presence byte), so the concatenation of the encoded  *)
(* fields can be read back in one way only.  The Swift agent writes the    *)
(* same texts.  So what passes a signature check is what was signed, and   *)
(* what passes the check of the hash answers the request of that hash; the *)
(* invariant ExchangeInv follows the two facts through the exchange.       *)
(***************************************************************************)
EXTENDS Exchange, SequenceTheorems, TLAPS

\* None, or Some(x).
Option(S) == {<<>>} \cup {<<x>> : x \in S}

\* Whatever follows them, the encodings u of x and v of y are told apart.
PrefixFree(u, v, x, y) == \A s, t \in Text : u \o s = v \o t => x = y /\ s = t

(* Two texts that start with pieces of one length agree piece by piece: how *)
(* a reader of canonical_bytes finds the end of a field of known length.    *)
LEMMA SplitsAtEqualLength ==
  ASSUME NEW a \in Text, NEW b \in Text, NEW c \in Text, NEW d \in Text,
         Len(a) = Len(c), a \o b = c \o d
  PROVE  a = c /\ b = d
<1>1. /\ Len(a) \in Nat /\ Len(b) \in Nat /\ Len(d) \in Nat
      /\ Len(a \o b) = Len(a) + Len(b) /\ Len(c \o d) = Len(c) + Len(d)
  BY LenProperties, ConcatProperties DEF Text
<1>2. Len(b) = Len(d)
  BY <1>1
<1>3. ASSUME NEW i \in 1..Len(a) PROVE a[i] = c[i]
  <2>1. a[i] = (a \o b)[i] /\ c[i] = (c \o d)[i]
    BY <1>1, ConcatProperties DEF Text
  <2> QED BY <2>1
<1>4. ASSUME NEW i \in 1..Len(b) PROVE b[i] = d[i]
  <2>1. /\ Len(a) + i \in 1..(Len(a) + Len(b))
        /\ ~ (Len(a) + i <= Len(a))
        /\ (Len(a) + i) - Len(a) = i
    BY <1>1
  <2>2. \A j \in 1..(Len(a) + Len(b)) :
          (a \o b)[j] = IF j <= Len(a) THEN a[j] ELSE b[j - Len(a)]
    BY ConcatProperties DEF Text
  <2>3. \A j \in 1..(Len(c) + Len(d)) :
          (c \o d)[j] = IF j <= Len(c) THEN c[j] ELSE d[j - Len(c)]
    BY ConcatProperties DEF Text
  <2>4. (a \o b)[Len(a) + i] = b[i]
    BY <2>1, <2>2
  <2>5. (c \o d)[Len(a) + i] = d[i]
    BY <1>2, <2>1, <2>3
  <2> QED BY <2>4, <2>5
<1>5. a = c
  BY <1>3, SeqEqual DEF Text
<1>6. b = d
  BY <1>2, <1>4, SeqEqual DEF Text
<1> QED BY <1>5, <1>6

(* to_be_bytes gives exactly the bytes of the width, the last one telling the *)
(* number.                                                                    *)
LEMMA NumbersAreTexts ==
  ASSUME NEW n \in Nat, NEW w \in Nat \ {0}
  PROVE  Rust!BigEndian(n, w) \in Text /\ Len(Rust!BigEndian(n, w)) = w /\ Rust!BigEndian(n, w)[w] = n
BY DEF Rust!BigEndian, Text

(* encode_u16, encode_u32 and encode_u64 write a fixed width, so the end of a *)
(* number does not depend on what follows it.                                 *)
LEMMA NumbersArePrefixFree ==
  ASSUME NEW m \in Nat, NEW n \in Nat, NEW w \in Nat \ {0}
  PROVE  PrefixFree(Rust!BigEndian(m, w), Rust!BigEndian(n, w), m, n)
<1> SUFFICES ASSUME NEW s \in Text, NEW t \in Text,
                    Rust!BigEndian(m, w) \o s = Rust!BigEndian(n, w) \o t
             PROVE  m = n /\ s = t
  BY DEF PrefixFree
<1>1. /\ Rust!BigEndian(m, w) \in Text /\ Rust!BigEndian(n, w) \in Text
      /\ Len(Rust!BigEndian(m, w)) = Len(Rust!BigEndian(n, w))
  BY NumbersAreTexts
<1>2. Rust!BigEndian(m, w) = Rust!BigEndian(n, w) /\ s = t
  BY <1>1, SplitsAtEqualLength
<1>3. Rust!BigEndian(m, w)[w] = m /\ Rust!BigEndian(n, w)[w] = n
  BY NumbersAreTexts
<1> QED BY <1>2, <1>3

(* Appending field after field to out gives one text, however it is grouped. *)
LEMMA Associates ==
  ASSUME NEW a \in Text, NEW b \in Text, NEW c \in Text
  PROVE  (a \o b) \o c = a \o (b \o c)
BY ConcatAssociative, SMTT(20) DEF Text

(* Appending to out leaves a text. *)
LEMMA Concatenates ==
  ASSUME NEW a \in Text, NEW b \in Text
  PROVE  a \o b \in Text
BY ConcatProperties DEF Text

(* Two fields written one after the other are told apart when each of them is. *)
LEMMA PrefixFreeExtends ==
  ASSUME NEW a \in Text, NEW b \in Text, NEW u \in Text, NEW v \in Text,
         NEW x, NEW y, NEW z, NEW w,
         PrefixFree(a, b, x, y), PrefixFree(u, v, z, w)
  PROVE  PrefixFree(a \o u, b \o v, <<x, z>>, <<y, w>>)
<1> SUFFICES ASSUME NEW s \in Text, NEW t \in Text, (a \o u) \o s = (b \o v) \o t
             PROVE  x = y /\ z = w /\ s = t
  BY DEF PrefixFree
<1>0. (a \o u) \o s = a \o (u \o s)
  BY Associates
<1>1. (b \o v) \o t = b \o (v \o t)
  BY Associates
<1>2. u \o s \in Text /\ v \o t \in Text
  BY Concatenates
<1>3. x = y /\ u \o s = v \o t
  BY <1>0, <1>1, <1>2 DEF PrefixFree
<1> QED BY <1>3 DEF PrefixFree

(* encode_bytes writes a text. *)
LEMMA BytesAreTexts ==
  ASSUME NEW s \in Text
  PROVE  Rust!EncodeBytes(s) \in Text
<1>1. Len(s) \in Nat
  BY LenProperties DEF Text
<1>2. Rust!BigEndian(Len(s), 4) \in Text
  BY <1>1, NumbersAreTexts
<1> QED BY <1>2, Concatenates DEF Rust!EncodeBytes, Rust!EncodeU32

(* encode_bytes writes the length first, so the end of a string does not     *)
(* depend on what the string holds or on what follows it.                    *)
LEMMA BytesArePrefixFree ==
  ASSUME NEW x \in Text, NEW y \in Text
  PROVE  PrefixFree(Rust!EncodeBytes(x), Rust!EncodeBytes(y), x, y)
<1> SUFFICES ASSUME NEW s \in Text, NEW t \in Text,
                    Rust!EncodeBytes(x) \o s = Rust!EncodeBytes(y) \o t
             PROVE  x = y /\ s = t
  BY DEF PrefixFree
<1>1. Len(x) \in Nat /\ Len(y) \in Nat
  BY LenProperties DEF Text
<1>2. Rust!BigEndian(Len(x), 4) \in Text /\ Rust!BigEndian(Len(y), 4) \in Text
  BY <1>1, NumbersAreTexts
<1> DEFINE p == Rust!BigEndian(Len(x), 4)
           q == Rust!BigEndian(Len(y), 4)
<1>3. PrefixFree(p, q, Len(x), Len(y))
  BY <1>1, NumbersArePrefixFree
<1> HIDE DEF p, q
<1>4. (p \o x) \o s = (q \o y) \o t
  BY DEF Rust!EncodeBytes, Rust!EncodeU32, p, q
<1>5. p \in Text /\ q \in Text
  BY <1>2 DEF p, q
<1>6. (p \o x) \o s = p \o (x \o s)
  BY <1>5, Associates
<1>7. (q \o y) \o t = q \o (y \o t)
  BY <1>5, Associates
<1>8. x \o s \in Text /\ y \o t \in Text
  BY Concatenates
<1>9. Len(x) = Len(y) /\ x \o s = y \o t
  BY <1>3, <1>4, <1>6, <1>7, <1>8 DEF PrefixFree
<1> QED BY <1>9, SplitsAtEqualLength

(* The presence byte of an optional field is read back as it was written. *)
LEMMA TagsSplit ==
  ASSUME NEW m \in Nat, NEW n \in Nat, NEW u \in Text, NEW v \in Text,
         <<m>> \o u = <<n>> \o v
  PROVE  m = n /\ u = v
<1>1. /\ <<m>> \in Text /\ <<n>> \in Text
      /\ Len(<<m>>) = 1 /\ Len(<<n>>) = 1
  BY DEF Text
<1>2. <<m>> = <<n>> /\ u = v
  BY <1>1, SplitsAtEqualLength
<1> QED BY <1>2

\* u and v are texts that encode x and y and that nothing after them blurs.
Codes(u, v, x, y) == u \in Text /\ v \in Text /\ PrefixFree(u, v, x, y)

(* One more encoded field keeps the whole encoding unambiguous. *)
LEMMA CodesExtend ==
  ASSUME NEW a, NEW b, NEW u, NEW v, NEW x, NEW y, NEW z, NEW w,
         Codes(a, b, x, y), Codes(u, v, z, w)
  PROVE  Codes(a \o u, b \o v, <<x, z>>, <<y, w>>)
BY PrefixFreeExtends, Concatenates DEF Codes

(* The encoders of numbers are unambiguous. *)
LEMMA CodesNumbers ==
  ASSUME NEW m \in Nat, NEW n \in Nat
  PROVE  /\ Codes(Rust!EncodeU16(m), Rust!EncodeU16(n), m, n)
         /\ Codes(Rust!EncodeU32(m), Rust!EncodeU32(n), m, n)
         /\ Codes(Rust!EncodeU64(m), Rust!EncodeU64(n), m, n)
BY NumbersAreTexts, NumbersArePrefixFree DEF Codes, Rust!EncodeU16, Rust!EncodeU32, Rust!EncodeU64

(* The encoder of strings and byte strings is unambiguous. *)
LEMMA CodesBytes ==
  ASSUME NEW x \in Text, NEW y \in Text
  PROVE  Codes(Rust!EncodeBytes(x), Rust!EncodeBytes(y), x, y)
BY BytesAreTexts, BytesArePrefixFree DEF Codes

\* The shape of encode_optional_str and encode_optional_u32.
Tagged(o, e) == IF o = <<>> THEN <<0>> ELSE <<1>> \o e

(* A presence byte before an unambiguous encoding is unambiguous: an absent *)
(* field and an empty one are told apart.                                    *)
LEMMA CodesTagged ==
  ASSUME NEW S, NEW o \in Option(S), NEW p \in Option(S), NEW e, NEW f,
         o # <<>> => e \in Text,
         p # <<>> => f \in Text,
         o # <<>> /\ p # <<>> => Codes(e, f, o[1], p[1])
  PROVE  Codes(Tagged(o, e), Tagged(p, f), o, p)
<1>1. <<0>> \in Text /\ <<1>> \in Text
  BY DEF Text
<1>2. Tagged(o, e) \in Text /\ Tagged(p, f) \in Text
  BY <1>1, Concatenates DEF Tagged
<1>3. ASSUME NEW s \in Text, NEW t \in Text, Tagged(o, e) \o s = Tagged(p, f) \o t
      PROVE  o = p /\ s = t
  <2>1. CASE o = <<>> /\ p = <<>>
    <3>1. <<0>> \o s = <<0>> \o t
      BY <1>3, <2>1 DEF Tagged
    <3> QED BY <2>1, <3>1, TagsSplit
  <2>2. CASE o = <<>> /\ p # <<>>
    <3>1. (<<1>> \o f) \o t = <<1>> \o (f \o t)
      BY <1>1, <2>2, Associates
    <3>2. <<0>> \o s = <<1>> \o (f \o t)
      BY <1>3, <2>2, <3>1 DEF Tagged
    <3> QED BY <2>2, <3>2, TagsSplit, Concatenates
  <2>3. CASE o # <<>> /\ p = <<>>
    <3>1. (<<1>> \o e) \o s = <<1>> \o (e \o s)
      BY <1>1, <2>3, Associates
    <3>2. <<1>> \o (e \o s) = <<0>> \o t
      BY <1>3, <2>3, <3>1 DEF Tagged
    <3> QED BY <2>3, <3>2, TagsSplit, Concatenates
  <2>4. CASE o # <<>> /\ p # <<>>
    <3>1. (<<1>> \o e) \o s = <<1>> \o (e \o s)
      BY <1>1, <2>4, Associates
    <3>2. (<<1>> \o f) \o t = <<1>> \o (f \o t)
      BY <1>1, <2>4, Associates
    <3>3. <<1>> \o (e \o s) = <<1>> \o (f \o t)
      BY <1>3, <2>4, <3>1, <3>2 DEF Tagged
    <3> DEFINE u == e \o s
               v == f \o t
    <3>4. u \in Text /\ v \in Text
      BY <2>4, Concatenates
    <3>5. u = v
      <4>1. <<1>> \o u = <<1>> \o v
        BY <3>3
      <4> HIDE DEF u, v
      <4> QED BY <3>4, <4>1, TagsSplit
    <3>6. o[1] = p[1] /\ s = t
      BY <2>4, <3>5 DEF Codes, PrefixFree
    <3>7. o = <<o[1]>> /\ p = <<p[1]>>
      BY <2>4 DEF Option
    <3> QED BY <3>6, <3>7
  <2> QED BY <2>1, <2>2, <2>3, <2>4
<1> QED BY <1>2, <1>3 DEF Codes, PrefixFree

(* encode_optional_str is unambiguous. *)
LEMMA CodesOptionalStr ==
  ASSUME NEW o \in Option(Text), NEW p \in Option(Text)
  PROVE  Codes(Rust!EncodeOptionalStr(o), Rust!EncodeOptionalStr(p), o, p)
<1>1. /\ Rust!EncodeOptionalStr(o) = Tagged(o, Rust!EncodeBytes(o[1]))
      /\ Rust!EncodeOptionalStr(p) = Tagged(p, Rust!EncodeBytes(p[1]))
  BY DEF Rust!EncodeOptionalStr, Rust!EncodeStr, Tagged
<1>2. (o # <<>> => o[1] \in Text) /\ (p # <<>> => p[1] \in Text)
  BY DEF Option
<1>3. /\ o # <<>> => Rust!EncodeBytes(o[1]) \in Text
      /\ p # <<>> => Rust!EncodeBytes(p[1]) \in Text
  BY <1>2, BytesAreTexts
<1>4. o # <<>> /\ p # <<>> => Codes(Rust!EncodeBytes(o[1]), Rust!EncodeBytes(p[1]), o[1], p[1])
  BY <1>2, CodesBytes
<1> QED BY <1>1, <1>3, <1>4, CodesTagged

(* encode_optional_u32 is unambiguous. *)
LEMMA CodesOptionalU32 ==
  ASSUME NEW o \in Option(Nat), NEW p \in Option(Nat)
  PROVE  Codes(Rust!EncodeOptionalU32(o), Rust!EncodeOptionalU32(p), o, p)
<1>1. /\ Rust!EncodeOptionalU32(o) = Tagged(o, Rust!EncodeU32(o[1]))
      /\ Rust!EncodeOptionalU32(p) = Tagged(p, Rust!EncodeU32(p[1]))
  BY DEF Rust!EncodeOptionalU32, Tagged
<1>2. (o # <<>> => o[1] \in Nat) /\ (p # <<>> => p[1] \in Nat)
  BY DEF Option
<1>3. /\ o # <<>> => Rust!EncodeU32(o[1]) \in Text
      /\ p # <<>> => Rust!EncodeU32(p[1]) \in Text
  BY <1>2, NumbersAreTexts DEF Rust!EncodeU32
<1>4. o # <<>> /\ p # <<>> => Codes(Rust!EncodeU32(o[1]), Rust!EncodeU32(p[1]), o[1], p[1])
  BY <1>2, CodesNumbers
<1> QED BY <1>1, <1>3, <1>4, CodesTagged

(* AuthDecision::canonical_name names every decision. *)
LEMMA DecisionNamesAreTexts ==
  ASSUME NEW d \in Rust!Decisions
  PROVE  Rust!DecisionName(d) \in Text
<1>1. CASE d = "approved"
  <2>1. Rust!DecisionName(d) = <<11>>
    BY <1>1 DEF Rust!DecisionName
  <2> QED BY <2>1 DEF Text
<1>2. CASE d = "denied"
  <2>1. Rust!DecisionName(d) = <<12>>
    BY <1>2 DEF Rust!DecisionName
  <2> QED BY <2>1 DEF Text
<1>3. CASE d = "unavailable"
  <2>1. Rust!DecisionName(d) = <<13>>
    BY <1>3 DEF Rust!DecisionName
  <2> QED BY <2>1 DEF Text
<1>4. CASE d = "cancelled"
  <2>1. Rust!DecisionName(d) = <<14>>
    BY <1>4 DEF Rust!DecisionName
  <2> QED BY <2>1 DEF Text
<1>5. CASE d = "failed"
  <2>1. Rust!DecisionName(d) = <<15>>
    BY <1>5 DEF Rust!DecisionName
  <2> QED BY <2>1 DEF Text
<1> QED BY <1>1, <1>2, <1>3, <1>4, <1>5 DEF Rust!Decisions

(* AuthMethod::canonical_name names every method. *)
LEMMA MethodNamesAreTexts ==
  ASSUME NEW m \in Rust!AuthMethods
  PROVE  Rust!MethodName(m) \in Text
<1>1. CASE m = "watch"
  <2>1. Rust!MethodName(m) = <<20>>
    BY <1>1 DEF Rust!MethodName
  <2> QED BY <2>1 DEF Text
<1>2. CASE m = "touch-id"
  <2>1. Rust!MethodName(m) = <<21>>
    BY <1>2 DEF Rust!MethodName
  <2> QED BY <2>1 DEF Text
<1>3. CASE m = "biometric-or-watch"
  <2>1. Rust!MethodName(m) = <<23>>
    BY <1>3 DEF Rust!MethodName
  <2> QED BY <2>1 DEF Text
<1>4. CASE m = "unknown"
  <2>1. Rust!MethodName(m) = <<24>>
    BY <1>4 DEF Rust!MethodName
  <2> QED BY <2>1 DEF Text
<1>5. CASE m = "none"
  <2>1. Rust!MethodName(m) = <<25>>
    BY <1>5 DEF Rust!MethodName
  <2> QED BY <2>1 DEF Text
<1> QED BY <1>1, <1>2, <1>3, <1>4, <1>5 DEF Rust!AuthMethods

\* An alg that both sides read, one that only the agent does, and any other.
Spellings == {"ed25519", "ED25519", "p256"}

\* AuthRequestBody, with strings and numbers of any size.
RequestBody ==
  [protocol_version : Nat,
   request_id : Text,
   nonce : Text,
   created_at_ms : Nat,
   expires_at_ms : Nat,
   linux_host_id : Text,
   linux_hostname : Text,
   pam_service : Text,
   pam_user : Text,
   pam_ruser : Option(Text),
   pam_rhost : Option(Text),
   pam_tty : Option(Text),
   sudo_command : Option(Text),
   client_pid : Option(Nat),
   key_id : Text,
   alg : Spellings]

(* canonical_bytes of a request is a text from which every field but alg can *)
(* be read back: the 17 encoders in a row, each unambiguous.                 *)
LEMMA RequestBytesReadBack ==
  ASSUME NEW b \in RequestBody, NEW c \in RequestBody
  PROVE  /\ Rust!RequestBytes(b) \in Text
         /\ Rust!RequestBytes(b) = Rust!RequestBytes(c) => [b EXCEPT !.alg = c.alg] = c
<1> DEFINE L0(x) == Rust!EncodeBytes(Rust!RequestDomain)
           L1(x) == L0(x) \o Rust!EncodeU16(x.protocol_version)
           L2(x) == L1(x) \o Rust!EncodeStr(x.request_id)
           L3(x) == L2(x) \o Rust!EncodeBytes(x.nonce)
           L4(x) == L3(x) \o Rust!EncodeU64(x.created_at_ms)
           L5(x) == L4(x) \o Rust!EncodeU64(x.expires_at_ms)
           L6(x) == L5(x) \o Rust!EncodeStr(x.linux_host_id)
           L7(x) == L6(x) \o Rust!EncodeStr(x.linux_hostname)
           L8(x) == L7(x) \o Rust!EncodeStr(x.pam_service)
           L9(x) == L8(x) \o Rust!EncodeStr(x.pam_user)
           L10(x) == L9(x) \o Rust!EncodeOptionalStr(x.pam_ruser)
           L11(x) == L10(x) \o Rust!EncodeOptionalStr(x.pam_rhost)
           L12(x) == L11(x) \o Rust!EncodeOptionalStr(x.pam_tty)
           L13(x) == L12(x) \o Rust!EncodeOptionalStr(x.sudo_command)
           L14(x) == L13(x) \o Rust!EncodeOptionalU32(x.client_pid)
           L15(x) == L14(x) \o Rust!EncodeStr(x.key_id)
           L16(x) == L15(x) \o Rust!EncodeStr(Rust!AlgorithmName)
           V0(x) == Rust!RequestDomain
           V1(x) == <<V0(x), x.protocol_version>>
           V2(x) == <<V1(x), x.request_id>>
           V3(x) == <<V2(x), x.nonce>>
           V4(x) == <<V3(x), x.created_at_ms>>
           V5(x) == <<V4(x), x.expires_at_ms>>
           V6(x) == <<V5(x), x.linux_host_id>>
           V7(x) == <<V6(x), x.linux_hostname>>
           V8(x) == <<V7(x), x.pam_service>>
           V9(x) == <<V8(x), x.pam_user>>
           V10(x) == <<V9(x), x.pam_ruser>>
           V11(x) == <<V10(x), x.pam_rhost>>
           V12(x) == <<V11(x), x.pam_tty>>
           V13(x) == <<V12(x), x.sudo_command>>
           V14(x) == <<V13(x), x.client_pid>>
           V15(x) == <<V14(x), x.key_id>>
           V16(x) == <<V15(x), Rust!AlgorithmName>>
<1> USE DEF RequestBody
<1>a. Rust!RequestBytes(b) = L16(b) /\ Rust!RequestBytes(c) = L16(c)
  BY DEF Rust!RequestBytes
<1>0. Codes(L0(b), L0(c), V0(b), V0(c))
  <2>1. Rust!RequestDomain \in Text
    BY DEF Rust!RequestDomain, Text
  <2> QED BY <2>1, CodesBytes
<1> HIDE DEF L0, V0, L1, V1, L2, V2, L3, V3, L4, V4, L5, V5, L6, V6, L7, V7,
             L8, V8, L9, V9, L10, V10, L11, V11, L12, V12, L13, V13, L14, V14, L15, V15,
             L16, V16
<1>1. Codes(L1(b), L1(c), V1(b), V1(c))
  <2>1. Codes(Rust!EncodeU16(b.protocol_version), Rust!EncodeU16(c.protocol_version), b.protocol_version, c.protocol_version)
    BY CodesNumbers
  <2> QED BY <1>0, <2>1, CodesExtend DEF L1, V1
<1>2. Codes(L2(b), L2(c), V2(b), V2(c))
  <2>1. Codes(Rust!EncodeStr(b.request_id), Rust!EncodeStr(c.request_id), b.request_id, c.request_id)
    BY CodesBytes DEF Rust!EncodeStr
  <2> QED BY <1>1, <2>1, CodesExtend DEF L2, V2
<1>3. Codes(L3(b), L3(c), V3(b), V3(c))
  <2>1. Codes(Rust!EncodeBytes(b.nonce), Rust!EncodeBytes(c.nonce), b.nonce, c.nonce)
    BY CodesBytes
  <2> QED BY <1>2, <2>1, CodesExtend DEF L3, V3
<1>4. Codes(L4(b), L4(c), V4(b), V4(c))
  <2>1. Codes(Rust!EncodeU64(b.created_at_ms), Rust!EncodeU64(c.created_at_ms), b.created_at_ms, c.created_at_ms)
    BY CodesNumbers
  <2> QED BY <1>3, <2>1, CodesExtend DEF L4, V4
<1>5. Codes(L5(b), L5(c), V5(b), V5(c))
  <2>1. Codes(Rust!EncodeU64(b.expires_at_ms), Rust!EncodeU64(c.expires_at_ms), b.expires_at_ms, c.expires_at_ms)
    BY CodesNumbers
  <2> QED BY <1>4, <2>1, CodesExtend DEF L5, V5
<1>6. Codes(L6(b), L6(c), V6(b), V6(c))
  <2>1. Codes(Rust!EncodeStr(b.linux_host_id), Rust!EncodeStr(c.linux_host_id), b.linux_host_id, c.linux_host_id)
    BY CodesBytes DEF Rust!EncodeStr
  <2> QED BY <1>5, <2>1, CodesExtend DEF L6, V6
<1>7. Codes(L7(b), L7(c), V7(b), V7(c))
  <2>1. Codes(Rust!EncodeStr(b.linux_hostname), Rust!EncodeStr(c.linux_hostname), b.linux_hostname, c.linux_hostname)
    BY CodesBytes DEF Rust!EncodeStr
  <2> QED BY <1>6, <2>1, CodesExtend DEF L7, V7
<1>8. Codes(L8(b), L8(c), V8(b), V8(c))
  <2>1. Codes(Rust!EncodeStr(b.pam_service), Rust!EncodeStr(c.pam_service), b.pam_service, c.pam_service)
    BY CodesBytes DEF Rust!EncodeStr
  <2> QED BY <1>7, <2>1, CodesExtend DEF L8, V8
<1>9. Codes(L9(b), L9(c), V9(b), V9(c))
  <2>1. Codes(Rust!EncodeStr(b.pam_user), Rust!EncodeStr(c.pam_user), b.pam_user, c.pam_user)
    BY CodesBytes DEF Rust!EncodeStr
  <2> QED BY <1>8, <2>1, CodesExtend DEF L9, V9
<1>10. Codes(L10(b), L10(c), V10(b), V10(c))
  <2>1. Codes(Rust!EncodeOptionalStr(b.pam_ruser), Rust!EncodeOptionalStr(c.pam_ruser), b.pam_ruser, c.pam_ruser)
    BY CodesOptionalStr
  <2> QED BY <1>9, <2>1, CodesExtend DEF L10, V10
<1>11. Codes(L11(b), L11(c), V11(b), V11(c))
  <2>1. Codes(Rust!EncodeOptionalStr(b.pam_rhost), Rust!EncodeOptionalStr(c.pam_rhost), b.pam_rhost, c.pam_rhost)
    BY CodesOptionalStr
  <2> QED BY <1>10, <2>1, CodesExtend DEF L11, V11
<1>12. Codes(L12(b), L12(c), V12(b), V12(c))
  <2>1. Codes(Rust!EncodeOptionalStr(b.pam_tty), Rust!EncodeOptionalStr(c.pam_tty), b.pam_tty, c.pam_tty)
    BY CodesOptionalStr
  <2> QED BY <1>11, <2>1, CodesExtend DEF L12, V12
<1>13. Codes(L13(b), L13(c), V13(b), V13(c))
  <2>1. Codes(Rust!EncodeOptionalStr(b.sudo_command), Rust!EncodeOptionalStr(c.sudo_command), b.sudo_command, c.sudo_command)
    BY CodesOptionalStr
  <2> QED BY <1>12, <2>1, CodesExtend DEF L13, V13
<1>14. Codes(L14(b), L14(c), V14(b), V14(c))
  <2>1. Codes(Rust!EncodeOptionalU32(b.client_pid), Rust!EncodeOptionalU32(c.client_pid), b.client_pid, c.client_pid)
    BY CodesOptionalU32
  <2> QED BY <1>13, <2>1, CodesExtend DEF L14, V14
<1>15. Codes(L15(b), L15(c), V15(b), V15(c))
  <2>1. Codes(Rust!EncodeStr(b.key_id), Rust!EncodeStr(c.key_id), b.key_id, c.key_id)
    BY CodesBytes DEF Rust!EncodeStr
  <2> QED BY <1>14, <2>1, CodesExtend DEF L15, V15
<1>16. Codes(L16(b), L16(c), V16(b), V16(c))
  <2>0. Rust!AlgorithmName \in Text
    BY DEF Rust!AlgorithmName, Text
  <2>1. Codes(Rust!EncodeStr(Rust!AlgorithmName), Rust!EncodeStr(Rust!AlgorithmName), Rust!AlgorithmName, Rust!AlgorithmName)
    BY <2>0, CodesBytes DEF Rust!EncodeStr
  <2> QED BY <1>15, <2>1, CodesExtend DEF L16, V16
<1>t. Rust!RequestBytes(b) \in Text
  BY <1>a, <1>16 DEF Codes
<1> SUFFICES ASSUME Rust!RequestBytes(b) = Rust!RequestBytes(c)
             PROVE  [b EXCEPT !.alg = c.alg] = c
  BY <1>t
<1>b. V16(b) = V16(c)
  BY <1>a, <1>16 DEF Codes, PrefixFree
<1>c. /\ b.protocol_version = c.protocol_version
      /\ b.request_id = c.request_id
      /\ b.nonce = c.nonce
      /\ b.created_at_ms = c.created_at_ms
      /\ b.expires_at_ms = c.expires_at_ms
      /\ b.linux_host_id = c.linux_host_id
      /\ b.linux_hostname = c.linux_hostname
      /\ b.pam_service = c.pam_service
      /\ b.pam_user = c.pam_user
      /\ b.pam_ruser = c.pam_ruser
      /\ b.pam_rhost = c.pam_rhost
      /\ b.pam_tty = c.pam_tty
      /\ b.sudo_command = c.sudo_command
      /\ b.client_pid = c.client_pid
      /\ b.key_id = c.key_id
  BY <1>b DEF V0, V1, V2, V3, V4, V5, V6, V7, V8, V9, V10, V11, V12, V13, V14, V15, V16
<1> QED BY <1>c

(***************************************************************************)
(* AuthRequestBody::canonical_bytes: two request bodies with the same      *)
(* signed text agree in every field (the algorithm's spelling apart, which *)
(* canonical_name replaces).  No byte can move from one field to the next  *)
(* under a signature, so what the agent shows is what the helper signed.   *)
(***************************************************************************)
THEOREM RequestBytesAreInjective ==
  ASSUME NEW b \in RequestBody, NEW c \in RequestBody, Rust!RequestBytes(b) = Rust!RequestBytes(c)
  PROVE  [b EXCEPT !.alg = c.alg] = c
BY RequestBytesReadBack

\* AuthResponseBody, with strings and numbers of any size.
ResponseBody ==
  [protocol_version : Nat,
   request_id : Text,
   nonce : Text,
   request_hash : Text,
   linux_host_id : Text,
   pam_service : Text,
   pam_user : Text,
   decision : Rust!Decisions,
   auth_method : Rust!AuthMethods,
   created_at_ms : Nat,
   expires_at_ms : Nat,
   agent_key_id : Text,
   error_code : Option(Text),
   error_message : Option(Text),
   alg : Spellings]

(***************************************************************************)
(* AuthResponseBody::canonical_bytes: two responses with the same signed   *)
(* text agree in every field, the decision and the request's hash          *)
(* included, so a signature of a denial is never one of an approval.       *)
(***************************************************************************)
THEOREM ResponseBytesAreInjective ==
  ASSUME NEW b \in ResponseBody, NEW c \in ResponseBody, Rust!ResponseBytes(b) = Rust!ResponseBytes(c)
  PROVE  [b EXCEPT !.alg = c.alg] = c
<1> DEFINE L0(x) == Rust!EncodeBytes(Rust!ResponseDomain)
           L1(x) == L0(x) \o Rust!EncodeU16(x.protocol_version)
           L2(x) == L1(x) \o Rust!EncodeStr(x.request_id)
           L3(x) == L2(x) \o Rust!EncodeBytes(x.nonce)
           L4(x) == L3(x) \o Rust!EncodeBytes(x.request_hash)
           L5(x) == L4(x) \o Rust!EncodeStr(x.linux_host_id)
           L6(x) == L5(x) \o Rust!EncodeStr(x.pam_service)
           L7(x) == L6(x) \o Rust!EncodeStr(x.pam_user)
           L8(x) == L7(x) \o Rust!EncodeStr(Rust!DecisionName(x.decision))
           L9(x) == L8(x) \o Rust!EncodeStr(Rust!MethodName(x.auth_method))
           L10(x) == L9(x) \o Rust!EncodeU64(x.created_at_ms)
           L11(x) == L10(x) \o Rust!EncodeU64(x.expires_at_ms)
           L12(x) == L11(x) \o Rust!EncodeStr(x.agent_key_id)
           L13(x) == L12(x) \o Rust!EncodeStr(Rust!AlgorithmName)
           L14(x) == L13(x) \o Rust!EncodeOptionalStr(x.error_code)
           L15(x) == L14(x) \o Rust!EncodeOptionalStr(x.error_message)
           V0(x) == Rust!ResponseDomain
           V1(x) == <<V0(x), x.protocol_version>>
           V2(x) == <<V1(x), x.request_id>>
           V3(x) == <<V2(x), x.nonce>>
           V4(x) == <<V3(x), x.request_hash>>
           V5(x) == <<V4(x), x.linux_host_id>>
           V6(x) == <<V5(x), x.pam_service>>
           V7(x) == <<V6(x), x.pam_user>>
           V8(x) == <<V7(x), Rust!DecisionName(x.decision)>>
           V9(x) == <<V8(x), Rust!MethodName(x.auth_method)>>
           V10(x) == <<V9(x), x.created_at_ms>>
           V11(x) == <<V10(x), x.expires_at_ms>>
           V12(x) == <<V11(x), x.agent_key_id>>
           V13(x) == <<V12(x), Rust!AlgorithmName>>
           V14(x) == <<V13(x), x.error_code>>
           V15(x) == <<V14(x), x.error_message>>
<1> USE DEF ResponseBody
<1>a. Rust!ResponseBytes(b) = L15(b) /\ Rust!ResponseBytes(c) = L15(c)
  BY DEF Rust!ResponseBytes
<1>0. Codes(L0(b), L0(c), V0(b), V0(c))
  <2>1. Rust!ResponseDomain \in Text
    BY DEF Rust!ResponseDomain, Text
  <2> QED BY <2>1, CodesBytes
<1> HIDE DEF L0, V0, L1, V1, L2, V2, L3, V3, L4, V4, L5, V5, L6, V6, L7, V7,
             L8, V8, L9, V9, L10, V10, L11, V11, L12, V12, L13, V13, L14, V14, L15, V15
<1>1. Codes(L1(b), L1(c), V1(b), V1(c))
  <2>1. Codes(Rust!EncodeU16(b.protocol_version), Rust!EncodeU16(c.protocol_version), b.protocol_version, c.protocol_version)
    BY CodesNumbers
  <2> QED BY <1>0, <2>1, CodesExtend DEF L1, V1
<1>2. Codes(L2(b), L2(c), V2(b), V2(c))
  <2>1. Codes(Rust!EncodeStr(b.request_id), Rust!EncodeStr(c.request_id), b.request_id, c.request_id)
    BY CodesBytes DEF Rust!EncodeStr
  <2> QED BY <1>1, <2>1, CodesExtend DEF L2, V2
<1>3. Codes(L3(b), L3(c), V3(b), V3(c))
  <2>1. Codes(Rust!EncodeBytes(b.nonce), Rust!EncodeBytes(c.nonce), b.nonce, c.nonce)
    BY CodesBytes
  <2> QED BY <1>2, <2>1, CodesExtend DEF L3, V3
<1>4. Codes(L4(b), L4(c), V4(b), V4(c))
  <2>1. Codes(Rust!EncodeBytes(b.request_hash), Rust!EncodeBytes(c.request_hash), b.request_hash, c.request_hash)
    BY CodesBytes
  <2> QED BY <1>3, <2>1, CodesExtend DEF L4, V4
<1>5. Codes(L5(b), L5(c), V5(b), V5(c))
  <2>1. Codes(Rust!EncodeStr(b.linux_host_id), Rust!EncodeStr(c.linux_host_id), b.linux_host_id, c.linux_host_id)
    BY CodesBytes DEF Rust!EncodeStr
  <2> QED BY <1>4, <2>1, CodesExtend DEF L5, V5
<1>6. Codes(L6(b), L6(c), V6(b), V6(c))
  <2>1. Codes(Rust!EncodeStr(b.pam_service), Rust!EncodeStr(c.pam_service), b.pam_service, c.pam_service)
    BY CodesBytes DEF Rust!EncodeStr
  <2> QED BY <1>5, <2>1, CodesExtend DEF L6, V6
<1>7. Codes(L7(b), L7(c), V7(b), V7(c))
  <2>1. Codes(Rust!EncodeStr(b.pam_user), Rust!EncodeStr(c.pam_user), b.pam_user, c.pam_user)
    BY CodesBytes DEF Rust!EncodeStr
  <2> QED BY <1>6, <2>1, CodesExtend DEF L7, V7
<1>8. Codes(L8(b), L8(c), V8(b), V8(c))
  <2>0. Rust!DecisionName(b.decision) \in Text /\ Rust!DecisionName(c.decision) \in Text
    BY DecisionNamesAreTexts
  <2>1. Codes(Rust!EncodeStr(Rust!DecisionName(b.decision)), Rust!EncodeStr(Rust!DecisionName(c.decision)), Rust!DecisionName(b.decision), Rust!DecisionName(c.decision))
    BY <2>0, CodesBytes DEF Rust!EncodeStr
  <2> QED BY <1>7, <2>1, CodesExtend DEF L8, V8
<1>9. Codes(L9(b), L9(c), V9(b), V9(c))
  <2>0. Rust!MethodName(b.auth_method) \in Text /\ Rust!MethodName(c.auth_method) \in Text
    BY MethodNamesAreTexts
  <2>1. Codes(Rust!EncodeStr(Rust!MethodName(b.auth_method)), Rust!EncodeStr(Rust!MethodName(c.auth_method)), Rust!MethodName(b.auth_method), Rust!MethodName(c.auth_method))
    BY <2>0, CodesBytes DEF Rust!EncodeStr
  <2> QED BY <1>8, <2>1, CodesExtend DEF L9, V9
<1>10. Codes(L10(b), L10(c), V10(b), V10(c))
  <2>1. Codes(Rust!EncodeU64(b.created_at_ms), Rust!EncodeU64(c.created_at_ms), b.created_at_ms, c.created_at_ms)
    BY CodesNumbers
  <2> QED BY <1>9, <2>1, CodesExtend DEF L10, V10
<1>11. Codes(L11(b), L11(c), V11(b), V11(c))
  <2>1. Codes(Rust!EncodeU64(b.expires_at_ms), Rust!EncodeU64(c.expires_at_ms), b.expires_at_ms, c.expires_at_ms)
    BY CodesNumbers
  <2> QED BY <1>10, <2>1, CodesExtend DEF L11, V11
<1>12. Codes(L12(b), L12(c), V12(b), V12(c))
  <2>1. Codes(Rust!EncodeStr(b.agent_key_id), Rust!EncodeStr(c.agent_key_id), b.agent_key_id, c.agent_key_id)
    BY CodesBytes DEF Rust!EncodeStr
  <2> QED BY <1>11, <2>1, CodesExtend DEF L12, V12
<1>13. Codes(L13(b), L13(c), V13(b), V13(c))
  <2>0. Rust!AlgorithmName \in Text
    BY DEF Rust!AlgorithmName, Text
  <2>1. Codes(Rust!EncodeStr(Rust!AlgorithmName), Rust!EncodeStr(Rust!AlgorithmName), Rust!AlgorithmName, Rust!AlgorithmName)
    BY <2>0, CodesBytes DEF Rust!EncodeStr
  <2> QED BY <1>12, <2>1, CodesExtend DEF L13, V13
<1>14. Codes(L14(b), L14(c), V14(b), V14(c))
  <2>1. Codes(Rust!EncodeOptionalStr(b.error_code), Rust!EncodeOptionalStr(c.error_code), b.error_code, c.error_code)
    BY CodesOptionalStr
  <2> QED BY <1>13, <2>1, CodesExtend DEF L14, V14
<1>15. Codes(L15(b), L15(c), V15(b), V15(c))
  <2>1. Codes(Rust!EncodeOptionalStr(b.error_message), Rust!EncodeOptionalStr(c.error_message), b.error_message, c.error_message)
    BY CodesOptionalStr
  <2> QED BY <1>14, <2>1, CodesExtend DEF L15, V15
<1>b. V15(b) = V15(c)
  BY <1>a, <1>15 DEF Codes, PrefixFree
<1>c. /\ b.protocol_version = c.protocol_version
      /\ b.request_id = c.request_id
      /\ b.nonce = c.nonce
      /\ b.request_hash = c.request_hash
      /\ b.linux_host_id = c.linux_host_id
      /\ b.pam_service = c.pam_service
      /\ b.pam_user = c.pam_user
      /\ Rust!DecisionName(b.decision) = Rust!DecisionName(c.decision)
      /\ Rust!MethodName(b.auth_method) = Rust!MethodName(c.auth_method)
      /\ b.created_at_ms = c.created_at_ms
      /\ b.expires_at_ms = c.expires_at_ms
      /\ b.agent_key_id = c.agent_key_id
      /\ b.error_code = c.error_code
      /\ b.error_message = c.error_message
  BY <1>b DEF V0, V1, V2, V3, V4, V5, V6, V7, V8, V9, V10, V11, V12, V13, V14, V15
<1>d. b.decision = c.decision
  BY <1>c DEF Rust!DecisionName, Rust!Decisions
<1>e. b.auth_method = c.auth_method
  BY <1>c DEF Rust!MethodName, Rust!AuthMethods
<1> QED BY <1>c, <1>d, <1>e

(* The encoders of lib.rs and of main.swift write numbers, strings, options *)
(* and the names of decisions and methods alike.                            *)
LEMMA EncodersAgree ==
  /\ \A n : /\ Swift!EncodeUInt16(n) = Rust!EncodeU16(n)
            /\ Swift!EncodeUInt32(n) = Rust!EncodeU32(n)
            /\ Swift!EncodeUInt64(n) = Rust!EncodeU64(n)
  /\ \A s : /\ Swift!EncodeBytes(s) = Rust!EncodeBytes(s)
            /\ Swift!EncodeString(s) = Rust!EncodeStr(s)
            /\ Swift!EncodeOptionalString(s) = Rust!EncodeOptionalStr(s)
            /\ Swift!EncodeOptionalUInt32(s) = Rust!EncodeOptionalU32(s)
  /\ \A x : /\ Swift!DecisionRawValue(x) = Rust!DecisionName(x)
            /\ Swift!CanonicalName(x) = Rust!MethodName(x)
<1>1. \A n : /\ Swift!EncodeUInt16(n) = Rust!EncodeU16(n)
             /\ Swift!EncodeUInt32(n) = Rust!EncodeU32(n)
             /\ Swift!EncodeUInt64(n) = Rust!EncodeU64(n)
  BY Zenon DEF Swift!EncodeUInt16, Swift!EncodeUInt32, Swift!EncodeUInt64, Swift!Shifted,
         Rust!EncodeU16, Rust!EncodeU32, Rust!EncodeU64, Rust!BigEndian
<1>2. \A s : Swift!EncodeBytes(s) = Rust!EncodeBytes(s)
  BY <1>1 DEF Swift!EncodeBytes, Rust!EncodeBytes
<1>3. \A s : Swift!EncodeString(s) = Rust!EncodeStr(s)
  BY <1>2, Zenon DEF Swift!EncodeString, Rust!EncodeStr
<1>4. \A s : /\ Swift!EncodeOptionalString(s) = Rust!EncodeOptionalStr(s)
             /\ Swift!EncodeOptionalUInt32(s) = Rust!EncodeOptionalU32(s)
  BY <1>1, <1>3 DEF Swift!EncodeOptionalString, Rust!EncodeOptionalStr,
     Swift!EncodeOptionalUInt32, Rust!EncodeOptionalU32
<1>5. \A x : /\ Swift!DecisionRawValue(x) = Rust!DecisionName(x)
             /\ Swift!CanonicalName(x) = Rust!MethodName(x)
  BY Zenon DEF Swift!DecisionRawValue, Rust!DecisionName, Swift!CanonicalName, Rust!MethodName
<1> QED
  BY <1>1, <1>2, <1>3, <1>4, <1>5

(***************************************************************************)
(* canonical_bytes and canonicalBytes: the Rust and the Swift code, which  *)
(* share no line, write the same text for every request and every response *)
(* whose algorithm the agent knows, whatever the fields hold.  So a        *)
(* signature that one of them makes is one the other accepts.              *)
(***************************************************************************)
THEOREM ImplementationsSignAlike ==
  ASSUME NEW b, Swift!CanonicalAlgorithmName(b.alg) # <<>>
  PROVE  /\ Swift!CanonicalBytes(b) = Rust!RequestBytes(b)
         /\ Swift!ResponseBytes(b) = Rust!ResponseBytes(b)
<1>1. Swift!CanonicalAlgorithmName(b.alg)[1] = Rust!AlgorithmName
  BY DEF Swift!CanonicalAlgorithmName, Rust!AlgorithmName
<1>2. Swift!RequestDomain = Rust!RequestDomain /\ Swift!ResponseDomain = Rust!ResponseDomain
  BY DEF Swift!RequestDomain, Rust!RequestDomain, Swift!ResponseDomain, Rust!ResponseDomain
<1>3. Swift!CanonicalBytes(b) = Rust!RequestBytes(b)
  BY <1>1, <1>2, EncodersAgree DEF Swift!CanonicalBytes, Rust!RequestBytes
<1>4. Swift!ResponseBytes(b) = Rust!ResponseBytes(b)
  BY <1>1, <1>2, EncodersAgree DEF Swift!ResponseBytes, Rust!ResponseBytes
<1> QED
  BY <1>3, <1>4

-----------------------------------------------------------------------------

\* AuthResponseBody as it arrives: the decision may be a word that is none.
LooseResponseBody ==
  [protocol_version : Nat,
   request_id : Text,
   nonce : Text,
   request_hash : Text,
   linux_host_id : Text,
   pam_service : Text,
   pam_user : Text,
   decision : Rust!Decisions \cup {"maybe"},
   auth_method : Rust!AuthMethods,
   created_at_ms : Nat,
   expires_at_ms : Nat,
   agent_key_id : Text,
   error_code : Option(Text),
   error_message : Option(Text),
   alg : Spellings]

\* What p's messages may be while the transaction is at pc.
PhaseOf(p) ==
  /\ pc[p] = "idle" => sent[p] = <<>> /\ seen[p] = <<>> /\ answer[p] = <<>>
  /\ pc[p] = "sent" => sent[p] # <<>> /\ seen[p] = <<>> /\ answer[p] = <<>>
  /\ pc[p] = "prompt" => sent[p] # <<>> /\ seen[p] # <<>> /\ answer[p] = <<>>
  /\ pc[p] = "answered" => sent[p] # <<>> /\ seen[p] # <<>> /\ answer[p] # <<>>
  /\ pc[p] # "done" => outcome[p] = "none"

\* b asks what PAM asked for with items.
AsksFor(b, items) ==
  /\ b.pam_user = items.user
  /\ Swift!Detail(items.service) \in {<<>>, <<b.pam_service>>}
  /\ Swift!Detail(b.pam_ruser) = Swift!Detail(items.ruser)
  /\ Swift!Detail(b.pam_rhost) = Swift!Detail(items.rhost)
  /\ Swift!Detail(b.pam_tty) = Swift!Detail(items.tty)

\* m is a request that run_request signed for p, whose items are items.
SignedFor(p, m, items) ==
  /\ m.body \in RequestBody
  /\ m.body.alg = "ed25519"
  /\ Rust!Validate(m.body)
  /\ m.signature = Rust!Sign(m.body, m.signature.key)
  /\ m.body.nonce = Nonce[p]
  /\ AsksFor(m.body, items)

SentOf(p) == sent[p] = <<>> \/ (sent[p] = <<sent[p][1]>> /\ SignedFor(p, sent[p][1], asked[p]))

\* b is a request the agent can answer.
Accepted(b) ==
  /\ b \in RequestBody
  /\ Rust!Validate(b)
  /\ Swift!CanonicalAlgorithmName(b.alg) # <<>>

SeenOf(p) ==
  seen[p] = <<>> \/ ( /\ seen[p] = <<seen[p][1]>>
                      /\ Accepted(seen[p][1])
                      /\ p \notin changed => seen[p][1] = sent[p][1].body )

\* r with its signature s is the answer to request b.
AnswersRequest(r, s, b) ==
  /\ r \in ResponseBody
  /\ r.alg = "ed25519"
  /\ Rust!ValidateResponse(r)
  /\ Rust!VerifyBinding(r, b)
  /\ s = Rust!SignResponse(r, AgentKey)

AnswerOf(p) ==
  answer[p] = <<>> \/ ( /\ answer[p] = <<answer[p][1]>>
                        /\ seen[p] # <<>>
                        /\ AnswersRequest(answer[p][1].body, answer[p][1].signature, seen[p][1]) )

\* The messages of one transaction, and of all of them.
TransactionOf(p) == PhaseOf(p) /\ SentOf(p) /\ SeenOf(p) /\ AnswerOf(p)
MessagesInv == \A p \in Proc : TransactionOf(p)

(* The link changes a body field by field, each to a value of that field. *)
LEMMA ChangesByField ==
  ASSUME NEW body, NEW fields, NEW b \in Changes(body, fields)
  PROVE  /\ b = [f \in DOMAIN body |-> b[f]]
         /\ \A f \in DOMAIN body : b[f] = body[f] \/ b[f] \in Values(f)
<1>1. PICK i \in 1..(Len(fields) - 1) : b \in ChangesOf(body, fields[i], fields[i + 1])
  BY Zenon DEF Changes
<1>2. \A f, g : b \in ChangesOf(body, f, g) =>
        \E v \in Values(f), w \in Values(g) : b = [body EXCEPT ![f] = v, ![g] = w]
  BY DEF ChangesOf
<1>3. ASSUME NEW f1, NEW f2, NEW v \in Values(f1), NEW w \in Values(f2),
             b = [body EXCEPT ![f1] = v, ![f2] = w]
      PROVE  /\ b = [f \in DOMAIN body |-> b[f]]
             /\ \A f \in DOMAIN body : b[f] = body[f] \/ b[f] \in Values(f)
  BY <1>3
<1> QED
  BY <1>1, <1>2, <1>3, Zenon

(* Every value that the link puts into a field is of the field's type. *)
LEMMA ValuesTyped ==
  /\ \A f \in {"protocol_version", "created_at_ms", "expires_at_ms"} : Values(f) \subseteq Nat
  /\ \A f \in {"request_id", "nonce", "linux_host_id", "linux_hostname", "pam_service",
               "pam_user", "key_id", "agent_key_id"} : Values(f) \subseteq Text
  /\ \A f \in {"pam_ruser", "pam_rhost", "pam_tty", "sudo_command", "error_code",
               "error_message"} : Values(f) \subseteq Option(Text)
  /\ Values("client_pid") \subseteq Option(Nat)
  /\ Values("alg") \subseteq Spellings
  /\ Values("decision") \subseteq Rust!Decisions \cup {"maybe"}
  /\ Values("auth_method") \subseteq Rust!AuthMethods
  /\ Values("request_hash") = Digests
<1>1. \A f \in {"protocol_version", "created_at_ms", "expires_at_ms"} : Values(f) \subseteq Nat
  <2>1. Values("protocol_version") = {1, 2}
    BY Zenon DEF Values
  <2>2. Values("created_at_ms") = {1, 3} /\ Values("expires_at_ms") = {1, 3}
    BY Zenon DEF Values
  <2> QED BY <2>1, <2>2
<1>2. \A f \in {"request_id", "nonce", "linux_host_id", "linux_hostname", "pam_service",
               "pam_user", "key_id", "agent_key_id"} : Values(f) \subseteq Text
  <2>1. Values("nonce") = {Nonce[p] : p \in Proc} \cup {<<>>}
    BY Zenon DEF Values
  <2>2. /\ Values("request_id") = Texts /\ Values("linux_host_id") = Texts
        /\ Values("linux_hostname") = Texts /\ Values("pam_service") = Texts
        /\ Values("pam_user") = Texts /\ Values("key_id") = Texts
        /\ Values("agent_key_id") = Texts
    BY Zenon DEF Values
  <2>3. <<>> \in Text
    BY DEF Text
  <2> QED BY <2>1, <2>2, <2>3, TextAssumption
<1>3. \A f \in {"pam_ruser", "pam_rhost", "pam_tty", "sudo_command", "error_code",
               "error_message"} : Values(f) \subseteq Option(Text)
  <2>1. \A f \in {"pam_ruser", "pam_rhost", "pam_tty", "sudo_command", "error_code",
                  "error_message"} : Values(f) = {<<>>} \cup {<<t>> : t \in Texts}
    <3>1. /\ Values("pam_ruser") = {<<>>} \cup {<<t>> : t \in Texts}
          /\ Values("pam_rhost") = {<<>>} \cup {<<t>> : t \in Texts}
          /\ Values("pam_tty") = {<<>>} \cup {<<t>> : t \in Texts}
      BY Zenon DEF Values
    <3>2. /\ Values("sudo_command") = {<<>>} \cup {<<t>> : t \in Texts}
          /\ Values("error_code") = {<<>>} \cup {<<t>> : t \in Texts}
          /\ Values("error_message") = {<<>>} \cup {<<t>> : t \in Texts}
      BY Zenon DEF Values
    <3> QED BY <3>1, <3>2
  <2>2. {<<>>} \cup {<<t>> : t \in Texts} \subseteq Option(Text)
    BY TextAssumption DEF Option
  <2> QED BY <2>1, <2>2
<1>4. Values("client_pid") \subseteq Option(Nat)
  <2>1. Values("client_pid") = {<<>>} \cup {<<Pid[p]>> : p \in Proc}
    BY Zenon DEF Values
  <2> QED BY <2>1, TextAssumption DEF Option
<1>5. /\ Values("alg") \subseteq Spellings
      /\ Values("decision") \subseteq Rust!Decisions \cup {"maybe"}
      /\ Values("auth_method") \subseteq Rust!AuthMethods
  <2>1. Values("alg") = {"ed25519", "ED25519", "p256"}
    BY Zenon DEF Values
  <2>2. Values("decision") = {"approved", "denied", "maybe"}
    BY Zenon DEF Values
  <2>3. Values("auth_method") = {"biometric-or-watch", "touch-id"}
    BY Zenon DEF Values
  <2> QED BY <2>1, <2>2, <2>3 DEF Spellings, Rust!Decisions, Rust!AuthMethods
<1>6. Values("request_hash") = Digests
  BY Zenon DEF Values
<1> QED
  BY <1>1, <1>2, <1>3, <1>4, <1>5, <1>6

(* A request that the link changes is still one that the decoder can read. *)
LEMMA ChangedRequest ==
  ASSUME NEW r \in RequestBody, NEW b \in Changes(r, RequestFields)
  PROVE  b \in RequestBody
<1>1. /\ b = [f \in DOMAIN r |-> b[f]]
      /\ \A f \in DOMAIN r : b[f] = r[f] \/ b[f] \in Values(f)
  BY ChangesByField
<1>2. b.protocol_version \in Nat /\ b.created_at_ms \in Nat /\ b.expires_at_ms \in Nat
  BY <1>1, ValuesTyped DEF RequestBody
<1>3. b.request_id \in Text /\ b.nonce \in Text /\ b.linux_host_id \in Text /\ b.key_id \in Text
  BY <1>1, ValuesTyped DEF RequestBody
<1>4. b.linux_hostname \in Text /\ b.pam_service \in Text /\ b.pam_user \in Text
  BY <1>1, ValuesTyped DEF RequestBody
<1>5. /\ b.pam_ruser \in Option(Text) /\ b.pam_rhost \in Option(Text)
      /\ b.pam_tty \in Option(Text) /\ b.sudo_command \in Option(Text)
  BY <1>1, ValuesTyped DEF RequestBody
<1>6. b.client_pid \in Option(Nat) /\ b.alg \in Spellings
  BY <1>1, ValuesTyped DEF RequestBody
<1> QED
  BY <1>1, <1>2, <1>3, <1>4, <1>5, <1>6 DEF RequestBody

(* A response that the link changes has fields of the right types, though its *)
(* decision may be a word that is none.                                       *)
LEMMA ChangedResponse ==
  ASSUME NEW r \in ResponseBody, NEW b \in Changes(r, ResponseFields), Digests \subseteq Text
  PROVE  b \in LooseResponseBody
<1>1. /\ b = [f \in DOMAIN r |-> b[f]]
      /\ \A f \in DOMAIN r : b[f] = r[f] \/ b[f] \in Values(f)
  BY ChangesByField
<1>2. b.protocol_version \in Nat /\ b.created_at_ms \in Nat /\ b.expires_at_ms \in Nat
  BY <1>1, ValuesTyped DEF ResponseBody
<1>3. b.request_id \in Text /\ b.nonce \in Text /\ b.linux_host_id \in Text
  BY <1>1, ValuesTyped DEF ResponseBody
<1>4. b.pam_service \in Text /\ b.pam_user \in Text /\ b.agent_key_id \in Text
  BY <1>1, ValuesTyped DEF ResponseBody
<1>5. b.error_code \in Option(Text) /\ b.error_message \in Option(Text)
  BY <1>1, ValuesTyped DEF ResponseBody
<1>6. /\ b.decision \in Rust!Decisions \cup {"maybe"} /\ b.auth_method \in Rust!AuthMethods
      /\ b.alg \in Spellings
  BY <1>1, ValuesTyped DEF ResponseBody
<1>7. b.request_hash \in Text
  BY <1>1, ValuesTyped DEF ResponseBody
<1> QED
  BY <1>1, <1>2, <1>3, <1>4, <1>5, <1>6, <1>7 DEF ResponseBody, LooseResponseBody

(* serde rejects the words that are no decision and no method. *)
LEMMA DecodedResponse ==
  ASSUME NEW r \in LooseResponseBody, Rust!Decodes(r)
  PROVE  r \in ResponseBody
BY DEF LooseResponseBody, ResponseBody, Rust!Decodes

(* Whatever the link brings carries the signature of a message that it knows. *)
LEMMA CarriedFrom ==
  ASSUME NEW p, NEW m, NEW known, NEW fields, m \in known,
         NEW got \in Carried(p, m, known, fields)
  PROVE  \E k \in known : /\ got.signature = k.signature
                          /\ got = k \/ got.body \in Changes(k.body, fields)
<1>1. CASE got \in {m} \cup known
  BY <1>1
<1>2. CASE got \notin {m} \cup known
  <2>1. got \in UNION {[body : Changes(k.body, fields), signature : {k.signature}] : k \in known}
    BY <1>2 DEF Carried
  <2>2. PICK k \in known : got \in [body : Changes(k.body, fields), signature : {k.signature}]
    BY <2>1, Zenon
  <2> QED
    BY <2>2
<1> QED
  BY <1>1, <1>2

(* An Option is one in either of the two senses used here. *)
LEMMA OptionTyped ==
  ASSUME NEW o, IsOption(o)
  PROVE  /\ o \in Option(Text)
         /\ o # <<>> => o = <<o[1]>> /\ o[1] \in Text
BY DEF IsOption, Option

(* build_request fills every field from the PAM items, the configuration and *)
(* the clock, so that the request passes validate and says what PAM asked.   *)
LEMMA BuiltRequest ==
  ASSUME NEW p \in Proc, NEW items \in Items[p], NEW host \in HostConfigs[p], NEW now \in Nat,
         Acceptable(PamArgs(items), host)
  PROVE  LET b == BuildRequest(p, PamArgs(items), host, now)
         IN  /\ b \in RequestBody /\ b.alg = "ed25519" /\ Rust!Validate(b)
             /\ b.nonce = Nonce[p] /\ AsksFor(b, items)
<1> DEFINE b == BuildRequest(p, PamArgs(items), host, now)
<1>1. /\ items.user \in Text /\ Nonce[p] \in Text /\ Pid[p] \in Nat
      /\ IsOption(items.service) /\ IsOption(items.ruser)
      /\ IsOption(items.rhost) /\ IsOption(items.tty)
  BY TextAssumption
<1>2. /\ IsOption(host.key_id) /\ IsOption(host.host_id)
      /\ IsOption(host.hostname) /\ IsOption(host.service)
  BY TextAssumption
<1>3. Timeout \in Nat /\ Timeout > 0 /\ Len(Nonce[p]) = NonceLen
  BY ExchangeAssumption
<1>4. host.host_id # <<>> /\ host.hostname # <<>>
  BY DEF Acceptable
<1>5. host.host_id[1] \in Text /\ host.hostname[1] \in Text
  BY <1>2, <1>4, OptionTyped
<1>6. \A o : IsOption(o) => PamItemString(o) \in Option(Text)
                            /\ Swift!Detail(PamItemString(o)) = Swift!Detail(o)
  BY OptionTyped DEF PamItemString, Option, Swift!Detail
<1>7. <<30>> \in Text /\ <<31>> \in Text /\ <<now, Pid[p]>> \in Text
  BY <1>1 DEF Text
<1>8. KeyId(host) \in Text
  BY <1>2, <1>7, OptionTyped DEF KeyId, UnwrapOr
<1>9. /\ Service(PamArgs(items), host) \in Text
      /\ Swift!Detail(items.service) \in {<<>>, <<Service(PamArgs(items), host)>>}
  <2>1. PamArgs(items).service = PamItemString(items.service)
    BY DEF PamArgs
  <2>2. CASE items.service \in {<<>>, <<(<<>>)>>}
    <3>1. PamItemString(items.service) = <<>> /\ Swift!Detail(items.service) = <<>>
      BY <2>2 DEF PamItemString, Swift!Detail
    <3>2. Service(PamArgs(items), host) = UnwrapOr(host.service, <<31>>)
      BY <2>1, <3>1 DEF Service, Or
    <3> QED
      BY <1>2, <1>7, <3>1, <3>2, OptionTyped DEF UnwrapOr
  <2>3. CASE items.service \notin {<<>>, <<(<<>>)>>}
    <3>1. PamItemString(items.service) = items.service /\ Swift!Detail(items.service) = items.service
      BY <2>3 DEF PamItemString, Swift!Detail
    <3>2. Service(PamArgs(items), host) = items.service[1]
      BY <2>1, <2>3, <3>1 DEF Service, Or, UnwrapOr
    <3> QED
      BY <1>1, <2>3, <3>1, <3>2, OptionTyped
  <2> QED BY <2>2, <2>3
<1>10. <<>> \in Option(Text) /\ <<Pid[p]>> \in Option(Nat)
  BY <1>1 DEF Option
<1>11. /\ PamArgs(items).user = items.user
       /\ PamArgs(items).ruser = PamItemString(items.ruser)
       /\ PamArgs(items).rhost = PamItemString(items.rhost)
       /\ PamArgs(items).tty = PamItemString(items.tty)
  BY DEF PamArgs
<1>12. b \in RequestBody
  BY <1>1, <1>3, <1>5, <1>6, <1>7, <1>8, <1>9, <1>10, <1>11
     DEF BuildRequest, RequestBody, Rust!ProtocolVersion, Spellings
<1>13. b.alg = "ed25519" /\ b.nonce = Nonce[p]
  BY DEF BuildRequest
<1>14. Rust!Validate(b)
  BY <1>3 DEF BuildRequest, Rust!Validate
<1>15. AsksFor(b, items)
  BY <1>1, <1>6, <1>9, <1>11 DEF BuildRequest, AsksFor
<1> QED
  BY <1>12, <1>13, <1>14, <1>15

(* A fake agent has one key, which it uses whatever host id a request shows. *)
LEMMA FakeHasOneKey ==
  ASSUME config \in AgentConfigs, config.agent = "fake", NEW id
  PROVE  VerifierFor(id) = <<config.host_public_key>>
<1>1. config.hosts = {}
  BY TextAssumption
<1>2. HostVerifiers(config) = [i \in {Star} |-> config.host_public_key]
  BY <1>1 DEF HostVerifiers
<1> QED
  BY <1>2 DEF VerifierFor

(* The checks that an accepted request has passed, with either agent: it can *)
(* be answered, and the key listed for its host id made its signature.       *)
LEMMA NoneRefused ==
  ASSUME config \in AgentConfigs, NEW m, m.body \in RequestBody, Refusal(m) = "none"
  PROVE  /\ Accepted(m.body)
         /\ \E key : /\ VerifierFor(m.body.linux_host_id) = <<key>>
                     /\ m.signature = Rust!Sign(m.body, key)
<1>1. CASE config.agent = "fake"
  <2>1. FakeAgentRefusal(m) = "none"
    BY <1>1 DEF Refusal
  <2>2. /\ Rust!DecodesRequest(m.body)
        /\ Rust!VerifyRequest(m.body, m.signature, config.host_public_key)
    BY <2>1, Zenon DEF FakeAgentRefusal
  <2>3. Swift!CanonicalAlgorithmName(m.body.alg) # <<>>
    BY <2>2 DEF Rust!DecodesRequest, Rust!AlgorithmSpellings, Swift!CanonicalAlgorithmName
  <2> QED
    BY <1>1, <2>2, <2>3, FakeHasOneKey DEF Accepted, Rust!VerifyRequest
<1>2. CASE config.agent # "fake"
  <2> DEFINE key == VerifierFor(m.body.linux_host_id)
  <2>1. ServeRefusal(m) = "none"
    BY <1>2 DEF Refusal
  <2>2. key # <<>> /\ Swift!ValidSignature(m.body, m.signature, key[1])
    BY <2>1, Zenon DEF ServeRefusal
  <2>3. key = <<key[1]>>
    BY <2>2 DEF VerifierFor
  <2>4. Swift!Validate(m.body) /\ m.signature = [key |-> key[1], text |-> Swift!CanonicalBytes(m.body)]
    BY <2>2 DEF Swift!ValidSignature
  <2>5. Rust!Validate(m.body) /\ Swift!CanonicalAlgorithmName(m.body.alg) # <<>>
    BY <2>4 DEF Swift!Validate, Rust!Validate, Swift!SupportedProtocolVersion, Rust!ProtocolVersion
  <2>6. Swift!CanonicalBytes(m.body) = Rust!RequestBytes(m.body)
    BY <2>5, ImplementationsSignAlike
  <2>7. m.signature = Rust!Sign(m.body, key[1])
    BY <2>4, <2>6 DEF Rust!Sign
  <2> QED
    BY <2>3, <2>5, <2>7 DEF Accepted
<1> QED
  BY <1>1, <1>2

(* What an agent may say of a request that it refuses. *)
LEMMA RefusalTyped ==
  ASSUME NEW m
  PROVE  Refusal(m) \in {"none", "unlisted", "unverified", "garbled", "stale"}
<1>1. FakeAgentRefusal(m) \in {"none", "unverified", "garbled", "stale"}
  BY Zenon DEF FakeAgentRefusal
<1>2. ServeRefusal(m) \in {"none", "unlisted", "unverified", "stale"}
  BY Zenon DEF ServeRefusal
<1> QED
  BY <1>1, <1>2 DEF Refusal

(* A request as its helper signed it is understood by an agent with the key. *)
LEMMA PlainRequest ==
  ASSUME config \in AgentConfigs, NEW p, NEW m, NEW items, SignedFor(p, m, items),
         VerifierFor(m.body.linux_host_id) = <<m.signature.key>>
  PROVE  Refusal(m) \in {"none", "stale"}
<1>1. CASE config.agent = "fake"
  <2>1. config.host_public_key = m.signature.key
    BY <1>1, FakeHasOneKey
  <2>2. Rust!DecodesRequest(m.body)
    BY DEF SignedFor, Rust!DecodesRequest, Rust!AlgorithmSpellings
  <2>3. Rust!VerifyRequest(m.body, m.signature, config.host_public_key)
    BY <2>1 DEF SignedFor, Rust!VerifyRequest
  <2>4. FakeAgentRefusal(m) \in {"none", "stale"}
    BY <2>2, <2>3, Zenon DEF FakeAgentRefusal
  <2> QED
    BY <1>1, <2>4 DEF Refusal
<1>2. CASE config.agent # "fake"
  <2> DEFINE key == VerifierFor(m.body.linux_host_id)
  <2>1. key # <<>> /\ key[1] = m.signature.key
    OBVIOUS
  <2>2. Swift!CanonicalAlgorithmName(m.body.alg) # <<>>
    BY DEF SignedFor, Swift!CanonicalAlgorithmName
  <2>3. Swift!Validate(m.body)
    BY <2>2 DEF SignedFor, Swift!Validate, Rust!Validate, Swift!SupportedProtocolVersion,
                Rust!ProtocolVersion
  <2>4. m.signature = [key |-> key[1], text |-> Swift!CanonicalBytes(m.body)]
    <3>1. Swift!CanonicalBytes(m.body) = Rust!RequestBytes(m.body)
      BY <2>2, ImplementationsSignAlike
    <3> QED BY <2>1, <3>1 DEF SignedFor, Rust!Sign
  <2>5. Swift!ValidSignature(m.body, m.signature, key[1])
    BY <2>3, <2>4 DEF Swift!ValidSignature
  <2>6. ServeRefusal(m) \in {"none", "stale"}
    BY <2>1, <2>5, Zenon DEF ServeRefusal
  <2> QED
    BY <1>2, <2>6 DEF Refusal
<1> QED
  BY <1>1, <1>2

(* What the helper may make of a response. *)
LEMMA VerdictTyped ==
  ASSUME NEW p, NEW m
  PROVE  /\ Verdict(p, m) \in Rust!Decisions \cup
                              {"garbled", "mismatch", "expired", "untimely"}
         /\ Verdict(p, m) \in Rust!Decisions =>
              /\ Rust!Decodes(m.body)
              /\ Rust!Verify(m.body, m.signature, AgentKey)
              /\ Rust!VerifyBinding(m.body, sent[p][1].body)
              /\ m.body.decision = Verdict(p, m)
<1>1. CASE ~ Rust!Decodes(m.body)
  <2>1. Verdict(p, m) = "garbled"
    BY <1>1, Zenon DEF Verdict
  <2> QED BY <2>1 DEF Rust!Decisions
<1>2. CASE Rust!Decodes(m.body) /\ ~ ( /\ Rust!Verify(m.body, m.signature, AgentKey)
                                       /\ Rust!VerifyBinding(m.body, sent[p][1].body) )
  <2>1. Verdict(p, m) = "mismatch"
    BY <1>2, Zenon DEF Verdict
  <2> QED BY <2>1 DEF Rust!Decisions
<1>3. CASE /\ Rust!Decodes(m.body)
           /\ Rust!Verify(m.body, m.signature, AgentKey)
           /\ Rust!VerifyBinding(m.body, sent[p][1].body)
  <2>1. Verdict(p, m) \in {"expired", "untimely", m.body.decision}
    BY <1>3, Zenon DEF Verdict
  <2>2. m.body.decision \in Rust!Decisions
    BY <1>3 DEF Rust!Decodes
  <2> QED BY <1>3, <2>1, <2>2 DEF Rust!Decisions
<1> QED
  BY <1>1, <1>2, <1>3

(* The answer to its own request is understood by the helper. *)
LEMMA PlainAnswer ==
  ASSUME NEW p, NEW m, AnswersRequest(m.body, m.signature, sent[p][1].body)
  PROVE  Verdict(p, m) \notin {"garbled", "mismatch"}
<1>1. Rust!Decodes(m.body)
  BY DEF AnswersRequest, ResponseBody, Rust!Decodes, Rust!AlgorithmSpellings
<1>2. /\ Rust!Verify(m.body, m.signature, AgentKey)
      /\ Rust!VerifyBinding(m.body, sent[p][1].body)
  BY DEF AnswersRequest, Rust!Verify
<1>3. Verdict(p, m) \in {"expired", "untimely", m.body.decision}
  BY <1>1, <1>2, Zenon DEF Verdict
<1>4. m.body.decision \in Rust!Decisions
  BY <1>1 DEF Rust!Decodes
<1> QED
  BY <1>3, <1>4 DEF Rust!Decisions

(* Both implementations give a decision its method. *)
LEMMA AnsweredTyped ==
  ASSUME NEW b \in RequestBody, NEW decision \in AgentDecisions, NEW now \in Nat,
         NEW expires \in Nat, NEW keyId \in Text
  PROVE  LET method == IF decision = "approved" THEN "biometric-or-watch" ELSE "none"
         IN  Rust!ForRequest(b, decision, method, now, expires, keyId) \in ResponseBody
<1>1. Rust!Sha256(b) \in Text
  BY RequestBytesReadBack DEF Rust!Sha256
<1>2. decision \in Rust!Decisions
  BY ExchangeAssumption DEF Rust!Decisions
<1>3. <<>> \in Option(Text)
  BY DEF Option
<1> HIDE DEF Rust!Sha256
<1> QED
  BY <1>1, <1>2, <1>3 DEF Rust!ForRequest, ResponseBody, RequestBody, Rust!AuthMethods, Spellings

(* run_fake_agent answers with a response that verifies against its request. *)
LEMMA RustAnswer ==
  ASSUME NEW b, Accepted(b), NEW decision \in AgentDecisions, NEW now \in Nat,
         NEW keyId \in Text
  PROVE  LET method == IF decision = "approved" THEN "biometric-or-watch" ELSE "none"
             r == Rust!ForRequest(b, decision, method, now, now + ResponseMs, keyId)
         IN  AnswersRequest(r, Rust!SignResponse(r, AgentKey), b)
<1> DEFINE method == IF decision = "approved" THEN "biometric-or-watch" ELSE "none"
           r == Rust!ForRequest(b, decision, method, now, now + ResponseMs, keyId)
<1>1. ResponseMs \in Nat /\ ResponseMs > 0
  BY ExchangeAssumption
<1>2. r \in ResponseBody
  BY <1>1, AnsweredTyped DEF Accepted
<1>3. r.alg = "ed25519"
  BY DEF Rust!ForRequest
<1>4. Rust!ValidateResponse(r)
  BY <1>1 DEF Rust!ValidateResponse, Rust!ForRequest, Accepted, Rust!Validate
<1>5. Rust!VerifyBinding(r, b)
  BY DEF Rust!VerifyBinding, Rust!ForRequest
<1> QED
  BY <1>2, <1>3, <1>4, <1>5 DEF AnswersRequest

(* handleServeRequest answers with a response that the Rust side verifies    *)
(* against the request: the hash and the signature are over the same texts.  *)
LEMMA SwiftAnswer ==
  ASSUME NEW b, Accepted(b), NEW decision \in AgentDecisions, NEW now \in Nat,
         NEW keyId \in Text, now < b.expires_at_ms,
         Swift!ValidateResponse(Swift!ForRequest(b, decision, now, ResponseMs, keyId))
  PROVE  LET r == Swift!ForRequest(b, decision, now, ResponseMs, keyId)
         IN  AnswersRequest(r, [key |-> AgentKey, text |-> Swift!ResponseBytes(r)], b)
<1> DEFINE r == Swift!ForRequest(b, decision, now, ResponseMs, keyId)
           expires == now + Swift!Lesser(ResponseMs, b.expires_at_ms - now)
           method == IF decision = "approved" THEN "biometric-or-watch" ELSE "none"
<1>1. ResponseMs \in Nat
  BY ExchangeAssumption
<1>2. b.expires_at_ms \in Nat
  BY DEF Accepted, RequestBody
<1>3. expires \in Nat
  BY <1>1, <1>2 DEF Swift!Lesser
<1>4. Swift!Sha256(b) = Rust!Sha256(b)
  BY ImplementationsSignAlike DEF Accepted, Swift!Sha256, Rust!Sha256
<1>5. r = Rust!ForRequest(b, decision, method, now, expires, keyId)
  BY <1>4 DEF Swift!ForRequest, Rust!ForRequest
<1> HIDE DEF expires
<1>6. r \in ResponseBody
  BY <1>3, <1>5, AnsweredTyped DEF Accepted
<1>7. r.alg = "ed25519"
  BY DEF Swift!ForRequest
<1>8. Rust!ValidateResponse(r)
  BY DEF Rust!ValidateResponse, Swift!ValidateResponse, Swift!SupportedProtocolVersion,
         Rust!ProtocolVersion
<1>9. Rust!VerifyBinding(r, b)
  BY <1>4 DEF Rust!VerifyBinding, Swift!ForRequest
<1>10. Swift!ResponseBytes(r) = Rust!ResponseBytes(r)
  BY <1>7, ImplementationsSignAlike DEF Swift!CanonicalAlgorithmName
<1> HIDE DEF r
<1> QED
  BY <1>6, <1>7, <1>8, <1>9, <1>10 DEF AnswersRequest, Rust!SignResponse, r

-----------------------------------------------------------------------------

\* TypeOK but for the messages, and the domains of the functions.
StateOK ==
  /\ clock \in 0..MaxClock
  /\ macBase \in MacBases
  /\ config \in AgentConfigs
  /\ pc \in [Proc -> {"idle", "sent", "prompt", "answered", "done"}]
  /\ \A p \in Proc : asked[p] \in Items[p]
  /\ outcome \in [Proc -> Outcomes]
  /\ changed \subseteq Proc
  /\ DOMAIN sent = Proc /\ DOMAIN seen = Proc /\ DOMAIN answer = Proc

(* The texts that the agent and the helper hash are texts. *)
LEMMA DigestsAreTexts ==
  ASSUME MessagesInv
  PROVE  Digests \subseteq Text
<1>1. \A p \in Proc : sent[p] # <<>> => sent[p][1].body \in RequestBody
  BY DEF MessagesInv, TransactionOf, SentOf, SignedFor
<1>2. \A b \in RequestBody : Rust!Sha256(b) \in Text
  BY RequestBytesReadBack DEF Rust!Sha256
<1> QED
  BY <1>1, <1>2 DEF Digests

(***************************************************************************)
(* A request that the agent accepts, on whatever connection and however    *)
(* the link changed it, is in every signed field the one that some helper  *)
(* signed, with the key listed for the host id it shows.                   *)
(***************************************************************************)
LEMMA AcceptedWasSigned ==
  ASSUME StateOK, MessagesInv, NEW p \in Proc, sent[p] # <<>>,
         NEW m \in Carried(p, sent[p][1], Requests, RequestFields), Refusal(m) = "none"
  PROVE  /\ Accepted(m.body)
         /\ \E q \in Proc : /\ sent[q] # <<>>
                            /\ SameRequest(m.body, sent[q][1].body)
                            /\ VerifierFor(m.body.linux_host_id) = <<sent[q][1].signature.key>>
<1>1. sent[p][1] \in Requests
  BY DEF Requests
<1>2. PICK k \in Requests : /\ m.signature = k.signature
                            /\ m = k \/ m.body \in Changes(k.body, RequestFields)
  BY <1>1, CarriedFrom
<1>3. PICK q \in Proc : sent[q] # <<>> /\ k = sent[q][1]
  BY DEF Requests
<1>4. /\ k.body \in RequestBody
      /\ k.signature = Rust!Sign(k.body, k.signature.key)
  BY <1>3 DEF MessagesInv, TransactionOf, SentOf, SignedFor
<1>5. m.body \in RequestBody
  BY <1>2, <1>4, ChangedRequest
<1>6. config \in AgentConfigs
  BY DEF StateOK
<1>7. /\ Accepted(m.body)
      /\ \E key : /\ VerifierFor(m.body.linux_host_id) = <<key>>
                  /\ m.signature = Rust!Sign(m.body, key)
  BY <1>5, <1>6, NoneRefused
<1>8. PICK key : /\ VerifierFor(m.body.linux_host_id) = <<key>>
                 /\ m.signature = Rust!Sign(m.body, key)
  BY <1>7
<1>9. key = k.signature.key /\ Rust!RequestBytes(m.body) = Rust!RequestBytes(k.body)
  BY <1>2, <1>4, <1>8 DEF Rust!Sign
<1>10. SameRequest(m.body, k.body)
  BY <1>4, <1>5, <1>9, RequestBytesAreInjective DEF SameRequest
<1> QED
  BY <1>3, <1>7, <1>8, <1>9, <1>10

\* What the agent accepted on q's connection is what PAM asked of p, on p's host.
AboutOf(p, q) ==
  /\ AsksFor(seen[q][1], asked[p])
  /\ seen[q][1].linux_hostname = sent[p][1].body.linux_hostname
  /\ seen[q][1].linux_host_id = sent[p][1].body.linux_host_id

(***************************************************************************)
(* A decision that the helper of p accepts was taken by the agent on a     *)
(* request that says what PAM asked of p.                                  *)
(***************************************************************************)
LEMMA AcceptedDecision ==
  ASSUME StateOK, MessagesInv, NEW p \in Proc, sent[p] # <<>>, answer[p] # <<>>,
         NEW m \in Carried(p, answer[p][1], Answers, ResponseFields),
         Verdict(p, m) \in Rust!Decisions
  PROVE  \E q \in Proc : /\ seen[q] # <<>> /\ seen[q][1].nonce = Nonce[p]
                         /\ answer[q] # <<>>
                         /\ answer[q][1].body.decision = Verdict(p, m)
                         /\ AboutOf(p, q)
<1>1. answer[p][1] \in Answers
  BY DEF Answers
<1>2. PICK k \in Answers : /\ m.signature = k.signature
                           /\ m = k \/ m.body \in Changes(k.body, ResponseFields)
  BY <1>1, CarriedFrom
<1>3. PICK q \in Proc : answer[q] # <<>> /\ k = answer[q][1]
  BY DEF Answers
<1>4. seen[q] # <<>> /\ AnswersRequest(k.body, k.signature, seen[q][1])
  BY <1>3 DEF MessagesInv, TransactionOf, AnswerOf
<1>5. seen[q][1] \in RequestBody
  BY <1>4 DEF MessagesInv, TransactionOf, SeenOf, Accepted
<1>6. /\ Rust!Decodes(m.body)
      /\ Rust!Verify(m.body, m.signature, AgentKey)
      /\ Rust!VerifyBinding(m.body, sent[p][1].body)
      /\ m.body.decision = Verdict(p, m)
  BY VerdictTyped
<1>7. k.body \in ResponseBody /\ Digests \subseteq Text
  BY <1>4, DigestsAreTexts DEF AnswersRequest
<1>8. m.body \in ResponseBody
  <2>1. CASE m = k
    BY <1>7, <2>1
  <2>2. CASE m.body \in Changes(k.body, ResponseFields)
    BY <1>6, <1>7, <2>2, ChangedResponse, DecodedResponse
  <2> QED BY <1>2, <2>1, <2>2
<1>9. Rust!ResponseBytes(m.body) = Rust!ResponseBytes(k.body)
  BY <1>2, <1>4, <1>6 DEF AnswersRequest, Rust!Verify, Rust!SignResponse
<1>10. [m.body EXCEPT !.alg = k.body.alg] = k.body
  BY <1>7, <1>8, <1>9, ResponseBytesAreInjective
<1>11. m.body.decision = k.body.decision /\ m.body.request_hash = k.body.request_hash
  BY <1>8, <1>10 DEF ResponseBody
<1>12. Rust!RequestBytes(seen[q][1]) = Rust!RequestBytes(sent[p][1].body)
  BY <1>4, <1>6, <1>11 DEF AnswersRequest, Rust!VerifyBinding, Rust!Sha256
<1>13. SignedFor(p, sent[p][1], asked[p])
  BY DEF MessagesInv, TransactionOf, SentOf
<1>14. [seen[q][1] EXCEPT !.alg = sent[p][1].body.alg] = sent[p][1].body
  BY <1>5, <1>12, <1>13, RequestBytesAreInjective DEF SignedFor
<1>15. /\ seen[q][1].nonce = sent[p][1].body.nonce
       /\ seen[q][1].pam_user = sent[p][1].body.pam_user
       /\ seen[q][1].pam_service = sent[p][1].body.pam_service
       /\ seen[q][1].pam_ruser = sent[p][1].body.pam_ruser
       /\ seen[q][1].pam_rhost = sent[p][1].body.pam_rhost
       /\ seen[q][1].pam_tty = sent[p][1].body.pam_tty
       /\ seen[q][1].linux_hostname = sent[p][1].body.linux_hostname
       /\ seen[q][1].linux_host_id = sent[p][1].body.linux_host_id
  BY <1>5, <1>14 DEF RequestBody
<1>16. seen[q][1].nonce = Nonce[p] /\ AboutOf(p, q)
  BY <1>13, <1>15 DEF SignedFor, AsksFor, AboutOf
<1> QED
  BY <1>3, <1>4, <1>6, <1>11, <1>16

-----------------------------------------------------------------------------

\* What all steps leave alone, and what a step leaves of transaction q.
Fixed == macBase' = macBase /\ config' = config /\ asked' = asked
SameFor(q) ==
  /\ pc'[q] = pc[q] /\ sent'[q] = sent[q] /\ seen'[q] = seen[q]
  /\ answer'[q] = answer[q] /\ outcome'[q] = outcome[q]
  /\ q \in changed' <=> q \in changed

(* A step of one transaction leaves the others alone. *)
LEMMA StepOfOne ==
  ASSUME StateOK, NEW p \in Proc,
         \/ \E host \in HostConfigs[p] : Refuse(p, host) \/ Send(p, host)
         \/ AgentRefuses(p) \/ AgentAccepts(p) \/ AgentGivesUp(p)
         \/ \E d \in AgentDecisions : AgentAnswers(p, d) \/ FakeAgentAnswers(p, d)
         \/ HelperDecides(p)
  PROVE  Fixed /\ clock' = clock /\ \A q \in Proc \ {p} : SameFor(q)
<1> USE DEF StateOK, Fixed, SameFor
<1>1. CASE \E host \in HostConfigs[p] : Refuse(p, host)
  BY <1>1 DEF Refuse, End
<1>2. CASE \E host \in HostConfigs[p] : Send(p, host)
  BY <1>2 DEF Send
<1>3. CASE AgentRefuses(p)
  <2>1. PICK m : Carry(p, sent[p][1], m) /\ End(p, Refusal(m))
    BY <1>3 DEF AgentRefuses
  <2> QED BY <1>3, <2>1 DEF AgentRefuses, Carry, End
<1>4. CASE AgentAccepts(p)
  <2>1. PICK m : Carry(p, sent[p][1], m) /\ seen' = [seen EXCEPT ![p] = <<m.body>>]
    BY <1>4 DEF AgentAccepts
  <2> QED BY <1>4, <2>1 DEF AgentAccepts, Carry
<1>5. CASE AgentGivesUp(p)
  BY <1>5 DEF AgentGivesUp, End
<1>6. CASE \E d \in AgentDecisions : AgentAnswers(p, d)
  <2>1. PICK d \in AgentDecisions : AgentAnswers(p, d)
    BY <1>6
  <2>2. \A q \in Proc \ {p} : answer'[q] = answer[q]
    BY <2>1 DEF AgentAnswers
  <2> QED BY <2>1, <2>2 DEF AgentAnswers
<1>7. CASE \E d \in AgentDecisions : FakeAgentAnswers(p, d)
  <2>1. PICK d \in AgentDecisions : FakeAgentAnswers(p, d)
    BY <1>7
  <2>2. \E m, r : /\ Carry(p, sent[p][1], m) /\ seen' = [seen EXCEPT ![p] = <<m.body>>]
                  /\ answer' = [answer EXCEPT ![p] = r]
    BY <2>1 DEF FakeAgentAnswers
  <2> QED BY <2>1, <2>2 DEF FakeAgentAnswers, Carry
<1>8. CASE HelperDecides(p)
  <2>1. PICK m : Carry(p, answer[p][1], m) /\ End(p, Verdict(p, m))
    BY <1>8 DEF HelperDecides
  <2> QED BY <1>8, <2>1 DEF HelperDecides, Carry, End
<1> QED
  BY <1>1, <1>2, <1>3, <1>4, <1>5, <1>6, <1>7, <1>8

(* What a step does not touch stays as it was. *)
LEMMA Untouched ==
  ASSUME NEW q \in Proc, TransactionOf(q), Fixed, SameFor(q)
  PROVE  TransactionOf(q)'
<1> USE DEF Fixed, SameFor, TransactionOf
<1>1. PhaseOf(q)'
  BY DEF PhaseOf
<1>2. SentOf(q)'
  BY DEF SentOf
<1>3. SeenOf(q)'
  BY DEF SeenOf
<1>4. AnswerOf(q)'
  BY DEF AnswerOf
<1> QED
  BY <1>1, <1>2, <1>3, <1>4

\* The three properties, for one transaction.
ShownOf(p) ==
  seen[p] # <<>> =>
    \E q \in Proc : /\ sent[q] # <<>>
                    /\ SameRequest(seen[p][1], sent[q][1].body)
                    /\ VerifierFor(seen[p][1].linux_host_id) = <<sent[q][1].signature.key>>
DecisionOf(p) ==
  outcome[p] \in Rust!Decisions =>
    /\ sent[p] # <<>>
    /\ \E q \in Proc : /\ seen[q] # <<>> /\ seen[q][1].nonce = Nonce[p]
                       /\ answer[q] # <<>> /\ answer[q][1].body.decision = outcome[p]
                       /\ AboutOf(p, q)
PlainOf(p) ==
  /\ p \notin changed
  /\ sent[p] # <<>>
  /\ VerifierFor(sent[p][1].body.linux_host_id) = <<sent[p][1].signature.key>>
  => outcome[p] \notin {"unlisted", "unverified", "garbled", "mismatch"}

\* The inductive invariant.
ExchangeInv ==
  /\ StateOK
  /\ \A p \in Proc : TransactionOf(p) /\ ShownOf(p) /\ DecisionOf(p) /\ PlainOf(p)

\* Messages that have been made stay.
Kept ==
  \A q \in Proc : /\ sent[q] # <<>> => sent'[q] = sent[q]
                  /\ seen[q] # <<>> => seen'[q] = seen[q]
                  /\ answer[q] # <<>> => answer'[q] = answer[q]

(* The keys that the agent has do not change. *)
LEMMA SameVerifiers ==
  ASSUME Fixed, NEW id
  PROVE  VerifierFor(id)' = VerifierFor(id)
BY DEF Fixed, VerifierFor

(* What was shown stays signed. *)
LEMMA ShownStays ==
  ASSUME NEW p \in Proc, ShownOf(p), Fixed, Kept, seen[p] # <<>>
  PROVE  ShownOf(p)'
<1>1. PICK q \in Proc : /\ sent[q] # <<>>
                        /\ SameRequest(seen[p][1], sent[q][1].body)
                        /\ VerifierFor(seen[p][1].linux_host_id) = <<sent[q][1].signature.key>>
  BY DEF ShownOf
<1>2. seen'[p] = seen[p] /\ sent'[q] = sent[q]
  BY <1>1 DEF Kept
<1>3. PICK b : b = seen[p][1]
  OBVIOUS
<1>4. VerifierFor(b.linux_host_id)' = VerifierFor(b.linux_host_id)
  BY SameVerifiers
<1>5. VerifierFor(seen[p][1].linux_host_id)' = VerifierFor(seen[p][1].linux_host_id)
  BY <1>2, <1>3, <1>4 DEF VerifierFor, Fixed
<1> QED
  BY <1>1, <1>2, <1>5 DEF ShownOf

(* A decision stays the agent's. *)
LEMMA DecisionStays ==
  ASSUME NEW p \in Proc, DecisionOf(p), Fixed, Kept, outcome'[p] = outcome[p]
  PROVE  DecisionOf(p)'
<1> SUFFICES ASSUME outcome[p] \in Rust!Decisions PROVE DecisionOf(p)'
  BY DEF DecisionOf
<1>1. PICK q \in Proc : /\ seen[q] # <<>> /\ seen[q][1].nonce = Nonce[p]
                        /\ answer[q] # <<>> /\ answer[q][1].body.decision = outcome[p]
                        /\ AboutOf(p, q)
  BY DEF DecisionOf
<1>2. /\ seen'[q] = seen[q] /\ answer'[q] = answer[q] /\ asked' = asked
      /\ sent[p] # <<>> /\ sent'[p] = sent[p]
  BY <1>1 DEF Kept, Fixed, DecisionOf
<1>3. AboutOf(p, q)'
  BY <1>1, <1>2 DEF AboutOf
<1> QED
  BY <1>1, <1>2, <1>3 DEF DecisionOf

(* An exchange that was understood stays so. *)
LEMMA PlainStays ==
  ASSUME NEW p \in Proc, PlainOf(p), Fixed, sent'[p] = sent[p], outcome'[p] = outcome[p],
         p \in changed => p \in changed'
  PROVE  PlainOf(p)'
<1>1. VerifierFor(sent[p][1].body.linux_host_id)' = VerifierFor(sent[p][1].body.linux_host_id)
  BY DEF VerifierFor, Fixed
<1> QED
  BY <1>1 DEF PlainOf

\* How a step leaves the state and the transaction p that took it.
GoodStep(p) ==
  /\ StateOK' /\ Kept
  /\ TransactionOf(p)' /\ ShownOf(p)' /\ DecisionOf(p)' /\ PlainOf(p)'

(***************************************************************************)
(* A transaction may end with how when a decision among it is the agent's  *)
(* and when no plain exchange is misunderstood by it.                      *)
(***************************************************************************)
LEMMA EndStep ==
  ASSUME ExchangeInv, NEW p \in Proc, NEW how \in Outcomes, how # "none",
         End(p, how), Fixed, clock' = clock,
         sent' = sent, seen' = seen, answer' = answer,
         changed' = changed \/ changed' = changed \cup {p},
         how \in Rust!Decisions =>
           /\ sent[p] # <<>>
           /\ \E q \in Proc : /\ seen[q] # <<>> /\ seen[q][1].nonce = Nonce[p]
                              /\ answer[q] # <<>> /\ answer[q][1].body.decision = how
                              /\ AboutOf(p, q),
         /\ p \notin changed' /\ sent[p] # <<>>
         /\ VerifierFor(sent[p][1].body.linux_host_id) = <<sent[p][1].signature.key>>
         => how \notin {"unlisted", "unverified", "garbled", "mismatch"}
  PROVE  GoodStep(p)
<1>0. pc'[p] = "done" /\ outcome'[p] = how
  BY DEF ExchangeInv, StateOK, End
<1>1. StateOK'
  BY DEF ExchangeInv, StateOK, End, Fixed
<1>2. Kept
  BY DEF Kept
<1>3. TransactionOf(p) /\ ShownOf(p)
  BY DEF ExchangeInv
<1>4. TransactionOf(p)'
  <2>1. PhaseOf(p)'
    BY <1>0 DEF PhaseOf
  <2>2. SentOf(p)' /\ SeenOf(p)' /\ AnswerOf(p)'
    BY <1>3 DEF TransactionOf, SentOf, SeenOf, AnswerOf, Fixed
  <2> QED BY <2>1, <2>2 DEF TransactionOf
<1>5. ShownOf(p)'
  <2>1. CASE seen[p] = <<>>
    BY <2>1 DEF ShownOf
  <2>2. CASE seen[p] # <<>>
    BY <1>2, <1>3, <2>2, ShownStays
  <2> QED BY <2>1, <2>2
<1>6. DecisionOf(p)'
  BY <1>0 DEF DecisionOf, AboutOf, Fixed
<1>7. PlainOf(p)'
  <2>1. VerifierFor(sent[p][1].body.linux_host_id)' = VerifierFor(sent[p][1].body.linux_host_id)
    BY DEF VerifierFor, Fixed
  <2> QED BY <1>0, <2>1 DEF PlainOf
<1> QED
  BY <1>1, <1>2, <1>4, <1>5, <1>6, <1>7 DEF GoodStep

(* A request that is not acceptable ends before a message is made. *)
LEMMA RefuseStep ==
  ASSUME ExchangeInv, NEW p \in Proc, NEW host, Refuse(p, host)
  PROVE  GoodStep(p)
<1>1. /\ End(p, "refused") /\ Fixed /\ clock' = clock /\ sent' = sent /\ seen' = seen
      /\ answer' = answer /\ changed' = changed
  BY DEF Refuse, Fixed
<1>2. "refused" \in Outcomes /\ "refused" \notin Rust!Decisions
  BY DEF Outcomes, Rust!Decisions
<1> QED
  BY <1>1, <1>2, EndStep

(* An agent that refuses a request it has the key of, and that nobody        *)
(* changed, can only find it stale.                                          *)
LEMMA AgentRefusesStep ==
  ASSUME ExchangeInv, NEW p \in Proc, AgentRefuses(p)
  PROVE  GoodStep(p)
<1>1. PICK m : Refusal(m) # "none" /\ Carry(p, sent[p][1], m) /\ End(p, Refusal(m))
  BY DEF AgentRefuses
<1>2. /\ Fixed /\ clock' = clock /\ sent' = sent /\ seen' = seen /\ answer' = answer
  BY DEF AgentRefuses, Fixed
<1>3. Refusal(m) \in {"unlisted", "unverified", "garbled", "stale"}
  BY <1>1, RefusalTyped
<1>4. /\ changed' = changed \/ changed' = changed \cup {p}
      /\ p \notin changed' => m = sent[p][1]
  BY <1>1 DEF Carry
<1>5. ASSUME p \notin changed', sent[p] # <<>>,
             VerifierFor(sent[p][1].body.linux_host_id) = <<sent[p][1].signature.key>>
      PROVE  Refusal(m) \notin {"unlisted", "unverified", "garbled", "mismatch"}
  <2>1. SignedFor(p, sent[p][1], asked[p]) /\ config \in AgentConfigs
    BY <1>5 DEF ExchangeInv, TransactionOf, SentOf, StateOK
  <2>2. Refusal(m) \in {"none", "stale"}
    BY <1>4, <1>5, <2>1, PlainRequest
  <2> QED BY <2>2
<1>6. Refusal(m) \in Outcomes /\ Refusal(m) \notin Rust!Decisions
  BY <1>3 DEF Outcomes, Rust!Decisions
<1> QED
  BY <1>1, <1>2, <1>4, <1>5, <1>6, EndStep

(* An agent that runs out of time says nothing. *)
LEMMA AgentGivesUpStep ==
  ASSUME ExchangeInv, NEW p \in Proc, AgentGivesUp(p)
  PROVE  GoodStep(p)
<1>1. /\ End(p, "late") /\ Fixed /\ clock' = clock /\ sent' = sent /\ seen' = seen
      /\ answer' = answer /\ changed' = changed
  BY DEF AgentGivesUp, Fixed
<1>2. "late" \in Outcomes /\ "late" \notin Rust!Decisions
  BY DEF Outcomes, Rust!Decisions
<1> QED
  BY <1>1, <1>2, EndStep

(* A decision that the helper accepts is the agent's, on its own request; a  *)
(* response that nobody changed is understood.                               *)
LEMMA HelperDecidesStep ==
  ASSUME ExchangeInv, NEW p \in Proc, HelperDecides(p)
  PROVE  GoodStep(p)
<1>1. PICK m \in Carried(p, answer[p][1], Answers, ResponseFields) :
        Carry(p, answer[p][1], m) /\ End(p, Verdict(p, m))
  BY DEF HelperDecides
<1>2. /\ Fixed /\ clock' = clock /\ sent' = sent /\ seen' = seen /\ answer' = answer
  BY DEF HelperDecides, Fixed
<1>3. PICK how : how = Verdict(p, m)
  OBVIOUS
<1>4. /\ changed' = changed \/ changed' = changed \cup {p}
      /\ p \notin changed' => m = answer[p][1] /\ p \notin changed
  BY <1>1 DEF Carry
<1>5. how \in Outcomes /\ how # "none"
  BY <1>3, VerdictTyped DEF Outcomes, Rust!Decisions
<1>6. sent[p] # <<>> /\ seen[p] # <<>> /\ answer[p] # <<>>
  BY DEF HelperDecides, ExchangeInv, TransactionOf, PhaseOf
<1>7. StateOK /\ MessagesInv
  BY DEF ExchangeInv, MessagesInv, TransactionOf
<1>8. how \in Rust!Decisions =>
        /\ sent[p] # <<>>
        /\ \E q \in Proc : /\ seen[q] # <<>> /\ seen[q][1].nonce = Nonce[p]
                           /\ answer[q] # <<>> /\ answer[q][1].body.decision = how
                           /\ AboutOf(p, q)
  BY <1>3, <1>6, <1>7, AcceptedDecision
<1>9. ASSUME p \notin changed'
      PROVE  how \notin {"unlisted", "unverified", "garbled", "mismatch"}
  <2>1. m = answer[p][1] /\ seen[p][1] = sent[p][1].body
    BY <1>4, <1>6, <1>7, <1>9 DEF MessagesInv, TransactionOf, SeenOf
  <2>2. AnswersRequest(m.body, m.signature, seen[p][1])
    BY <1>6, <1>7, <2>1 DEF MessagesInv, TransactionOf, AnswerOf
  <2>3. Verdict(p, m) \notin {"garbled", "mismatch"}
    BY <2>1, <2>2, PlainAnswer
  <2>4. Verdict(p, m) \notin {"unlisted", "unverified"}
    BY VerdictTyped DEF Rust!Decisions
  <2> QED BY <1>3, <2>3, <2>4
<1> QED
  BY <1>1, <1>2, <1>3, <1>4, <1>5, <1>8, <1>9, EndStep

(* The clocks show natural numbers. *)
LEMMA ClocksTyped ==
  ASSUME StateOK
  PROVE  LinuxNow \in Nat /\ MacNow \in Nat
BY ExchangeAssumption DEF StateOK, LinuxNow, MacNow

(* The request that the helper signs says what PAM asked for. *)
LEMMA SendStep ==
  ASSUME ExchangeInv, NEW p \in Proc, NEW host \in HostConfigs[p], Send(p, host)
  PROVE  GoodStep(p)
<1>1. StateOK /\ TransactionOf(p) /\ DecisionOf(p)
  BY DEF ExchangeInv
<1>2. /\ pc[p] = "idle" /\ sent[p] = <<>> /\ seen[p] = <<>> /\ answer[p] = <<>>
      /\ outcome[p] = "none" /\ asked[p] \in Items[p]
  BY <1>1 DEF Send, StateOK, TransactionOf, PhaseOf
<1>3. PICK body : body = BuildRequest(p, PamArgs(asked[p]), host, LinuxNow)
  OBVIOUS
<1>4. PICK m : m = [body |-> body, signature |-> Rust!Sign(body, host.key)]
  OBVIOUS
<1>5. SignedFor(p, m, asked[p])
  <2>1. Acceptable(PamArgs(asked[p]), host)
    BY DEF Send
  <2>2. LinuxNow \in Nat
    BY <1>1, ClocksTyped
  <2>3. /\ body \in RequestBody /\ body.alg = "ed25519" /\ Rust!Validate(body)
        /\ body.nonce = Nonce[p] /\ AsksFor(body, asked[p])
    BY <1>2, <1>3, <2>1, <2>2, BuiltRequest
  <2>4. m.body = body /\ m.signature = Rust!Sign(m.body, m.signature.key)
    BY <1>4 DEF Rust!Sign
  <2> QED BY <2>3, <2>4 DEF SignedFor
<1>6. /\ sent' = [sent EXCEPT ![p] = <<m>>] /\ pc' = [pc EXCEPT ![p] = "sent"]
      /\ seen' = seen /\ answer' = answer /\ outcome' = outcome /\ changed' = changed
      /\ clock' = clock /\ Fixed
  BY <1>3, <1>4 DEF Send, Fixed
<1>7. sent'[p] = <<m>> /\ pc'[p] = "sent"
  BY <1>1, <1>6 DEF StateOK
<1>8. StateOK'
  BY <1>1, <1>6 DEF StateOK, Fixed
<1>9. Kept
  BY <1>1, <1>2, <1>6 DEF Kept, StateOK
<1>10. TransactionOf(p)'
  <2>0. /\ sent'[p] # <<>> /\ seen'[p] = <<>> /\ answer'[p] = <<>> /\ outcome'[p] = "none"
    BY <1>2, <1>6, <1>7
  <2>1. PhaseOf(p)'
    BY <1>7, <2>0 DEF PhaseOf
  <2>2. SentOf(p)'
    BY <1>5, <1>6, <1>7 DEF SentOf, Fixed
  <2>3. SeenOf(p)' /\ AnswerOf(p)'
    BY <1>2, <1>6 DEF SeenOf, AnswerOf
  <2> QED BY <2>1, <2>2, <2>3 DEF TransactionOf
<1>11. ShownOf(p)' /\ DecisionOf(p)' /\ PlainOf(p)'
  BY <1>2, <1>6 DEF ShownOf, DecisionOf, PlainOf, Rust!Decisions
<1> QED
  BY <1>8, <1>9, <1>10, <1>11 DEF GoodStep

(* A request that the agent accepts on p's connection. *)
LEMMA SeenStep ==
  ASSUME ExchangeInv, NEW p \in Proc, pc[p] = "sent",
         NEW m \in Carried(p, sent[p][1], Requests, RequestFields), Refusal(m) = "none",
         Carry(p, sent[p][1], m), Fixed, sent' = sent, outcome' = outcome,
         seen' = [seen EXCEPT ![p] = <<m.body>>]
  PROVE  /\ Accepted(m.body) /\ seen'[p] = <<m.body>>
         /\ SentOf(p)' /\ SeenOf(p)' /\ ShownOf(p)' /\ PlainOf(p)'
         /\ changed' \subseteq Proc
<1>1. StateOK /\ MessagesInv /\ TransactionOf(p)
  BY DEF ExchangeInv, MessagesInv, TransactionOf
<1>2. sent[p] # <<>> /\ outcome[p] = "none"
  BY <1>1 DEF TransactionOf, PhaseOf
<1>3. /\ Accepted(m.body)
      /\ \E q \in Proc : /\ sent[q] # <<>>
                         /\ SameRequest(m.body, sent[q][1].body)
                         /\ VerifierFor(m.body.linux_host_id) = <<sent[q][1].signature.key>>
  BY <1>1, <1>2, AcceptedWasSigned
<1>4. seen'[p] = <<m.body>>
  BY <1>1 DEF StateOK
<1>5. changed' \subseteq Proc /\ (p \notin changed' => m = sent[p][1])
  BY <1>1 DEF StateOK, Carry
<1>6. SentOf(p)'
  BY <1>1 DEF TransactionOf, SentOf, Fixed
<1>7. SeenOf(p)'
  BY <1>3, <1>4, <1>5 DEF SeenOf
<1>8. ShownOf(p)'
  <2>1. VerifierFor(m.body.linux_host_id)' = VerifierFor(m.body.linux_host_id)
    BY DEF VerifierFor, Fixed
  <2>2. VerifierFor(seen[p][1].linux_host_id)' = VerifierFor(m.body.linux_host_id)
    BY <1>4, <2>1 DEF VerifierFor, Fixed
  <2> QED BY <1>3, <1>4, <2>2 DEF ShownOf
<1>9. PlainOf(p)'
  BY <1>2 DEF PlainOf
<1> QED
  BY <1>3, <1>4, <1>5, <1>6, <1>7, <1>8, <1>9

(* The agent accepts a request that some helper signed. *)
LEMMA AgentAcceptsStep ==
  ASSUME ExchangeInv, NEW p \in Proc, AgentAccepts(p)
  PROVE  GoodStep(p)
<1>1. StateOK /\ TransactionOf(p)
  BY DEF ExchangeInv
<1>2. /\ pc[p] = "sent" /\ sent[p] # <<>> /\ seen[p] = <<>> /\ answer[p] = <<>>
      /\ outcome[p] = "none"
  BY <1>1 DEF AgentAccepts, TransactionOf, PhaseOf
<1>3. PICK m \in Carried(p, sent[p][1], Requests, RequestFields) :
        /\ Refusal(m) = "none" /\ Carry(p, sent[p][1], m)
        /\ seen' = [seen EXCEPT ![p] = <<m.body>>]
  BY DEF AgentAccepts
<1>4. /\ pc' = [pc EXCEPT ![p] = "prompt"] /\ sent' = sent /\ answer' = answer
      /\ outcome' = outcome /\ clock' = clock /\ Fixed
  BY DEF AgentAccepts, Fixed
<1>5. /\ seen'[p] = <<m.body>> /\ SentOf(p)' /\ SeenOf(p)' /\ ShownOf(p)' /\ PlainOf(p)'
      /\ changed' \subseteq Proc
  BY <1>2, <1>3, <1>4, SeenStep
<1>6. pc'[p] = "prompt"
  BY <1>1, <1>4 DEF StateOK
<1>7. StateOK'
  BY <1>1, <1>3, <1>4, <1>5 DEF StateOK, Fixed
<1>8. Kept
  BY <1>1, <1>2, <1>3, <1>4 DEF Kept, StateOK
<1>9. TransactionOf(p)'
  <2>1. PhaseOf(p)'
    BY <1>2, <1>4, <1>5, <1>6 DEF PhaseOf
  <2>2. AnswerOf(p)'
    BY <1>2, <1>4 DEF AnswerOf
  <2> QED BY <1>5, <2>1, <2>2 DEF TransactionOf
<1>10. DecisionOf(p)'
  BY <1>2, <1>4 DEF DecisionOf, Rust!Decisions
<1> QED
  BY <1>5, <1>7, <1>8, <1>9, <1>10 DEF GoodStep

(* The agent's answer is one to the request that it showed. *)
LEMMA AgentAnswersStep ==
  ASSUME ExchangeInv, NEW p \in Proc, NEW d \in AgentDecisions, AgentAnswers(p, d)
  PROVE  GoodStep(p)
<1>1. StateOK /\ TransactionOf(p) /\ ShownOf(p) /\ PlainOf(p) /\ DecisionOf(p)
  BY DEF ExchangeInv
<1>2. /\ pc[p] = "prompt" /\ sent[p] # <<>> /\ seen[p] # <<>> /\ answer[p] = <<>>
      /\ outcome[p] = "none"
  BY <1>1 DEF AgentAnswers, TransactionOf, PhaseOf
<1>3. PICK b : b = seen[p][1]
  OBVIOUS
<1>4. PICK r : r = Swift!ForRequest(b, d, MacNow, ResponseMs, <<40>>)
  OBVIOUS
<1>5. PICK m : m = [body |-> r,
                    signature |-> [key |-> AgentKey, text |-> Swift!ResponseBytes(r)]]
  OBVIOUS
<1>6. /\ MacNow < b.expires_at_ms /\ Swift!ValidateResponse(r)
      /\ answer' = [answer EXCEPT ![p] = <<m>>]
      /\ pc' = [pc EXCEPT ![p] = "answered"]
      /\ sent' = sent /\ seen' = seen /\ outcome' = outcome /\ changed' = changed
      /\ clock' = clock /\ Fixed
  BY <1>3, <1>4, <1>5 DEF AgentAnswers, Fixed
<1>7. AnswersRequest(m.body, m.signature, b)
  <2>0. <<40>> \in Text
    BY DEF Text
  <2>1. Accepted(b) /\ MacNow \in Nat
    BY <1>1, <1>2, <1>3, ClocksTyped DEF TransactionOf, SeenOf
  <2>2. AnswersRequest(r, [key |-> AgentKey, text |-> Swift!ResponseBytes(r)], b)
    BY <1>4, <1>6, <2>0, <2>1, SwiftAnswer
  <2> QED BY <1>5, <2>2
<1>8. answer'[p] = <<m>> /\ pc'[p] = "answered"
  BY <1>1, <1>6 DEF StateOK
<1>9. StateOK'
  BY <1>1, <1>6 DEF StateOK, Fixed
<1>10. Kept
  BY <1>1, <1>2, <1>6 DEF Kept, StateOK
<1>11. TransactionOf(p)'
  <2>1. PhaseOf(p)'
    BY <1>2, <1>6, <1>8 DEF PhaseOf
  <2>2. SentOf(p)' /\ SeenOf(p)'
    BY <1>1, <1>6 DEF TransactionOf, SentOf, SeenOf, Fixed
  <2>3. AnswerOf(p)'
    BY <1>2, <1>3, <1>6, <1>7, <1>8 DEF AnswerOf
  <2> QED BY <2>1, <2>2, <2>3 DEF TransactionOf
<1>12. ShownOf(p)' /\ PlainOf(p)' /\ DecisionOf(p)'
  BY <1>1, <1>2, <1>6, <1>10, ShownStays, PlainStays, DecisionStays
<1> QED
  BY <1>9, <1>10, <1>11, <1>12 DEF GoodStep

(* The fake agent accepts and answers in one step. *)
LEMMA FakeAgentAnswersStep ==
  ASSUME ExchangeInv, NEW p \in Proc, NEW d \in AgentDecisions, FakeAgentAnswers(p, d)
  PROVE  GoodStep(p)
<1> DEFINE method == IF d = "approved" THEN "biometric-or-watch" ELSE "none"
           R(m) == Rust!ForRequest(m.body, d, method, MacNow, MacNow + ResponseMs, <<40>>)
<1>1. StateOK /\ TransactionOf(p)
  BY DEF ExchangeInv
<1>2. /\ pc[p] = "sent" /\ sent[p] # <<>> /\ seen[p] = <<>> /\ answer[p] = <<>>
      /\ outcome[p] = "none"
  BY <1>1 DEF FakeAgentAnswers, TransactionOf, PhaseOf
<1>3. PICK m \in Carried(p, sent[p][1], Requests, RequestFields) :
        /\ Refusal(m) = "none" /\ Carry(p, sent[p][1], m)
        /\ seen' = [seen EXCEPT ![p] = <<m.body>>]
        /\ answer' = [answer EXCEPT ![p] =
             <<[body |-> R(m), signature |-> Rust!SignResponse(R(m), AgentKey)]>>]
  BY DEF FakeAgentAnswers
<1>4. PICK r : r = R(m)
  OBVIOUS
<1>5. PICK a : a = [body |-> r, signature |-> Rust!SignResponse(r, AgentKey)]
  OBVIOUS
<1>6. /\ answer' = [answer EXCEPT ![p] = <<a>>]
      /\ pc' = [pc EXCEPT ![p] = "answered"] /\ sent' = sent
      /\ outcome' = outcome /\ clock' = clock /\ Fixed
  BY <1>3, <1>4, <1>5 DEF FakeAgentAnswers, Fixed
<1>7. /\ Accepted(m.body) /\ seen'[p] = <<m.body>>
      /\ SentOf(p)' /\ SeenOf(p)' /\ ShownOf(p)' /\ PlainOf(p)'
      /\ changed' \subseteq Proc
  BY <1>2, <1>3, <1>6, SeenStep
<1>8. AnswersRequest(a.body, a.signature, m.body)
  <2>0. <<40>> \in Text
    BY DEF Text
  <2>1. MacNow \in Nat
    BY <1>1, ClocksTyped
  <2>2. AnswersRequest(r, Rust!SignResponse(r, AgentKey), m.body)
    BY <1>4, <1>7, <2>0, <2>1, RustAnswer
  <2> QED BY <1>5, <2>2
<1>9. answer'[p] = <<a>> /\ pc'[p] = "answered"
  BY <1>1, <1>6 DEF StateOK
<1>10. StateOK'
  BY <1>1, <1>3, <1>6, <1>7 DEF StateOK, Fixed
<1>11. Kept
  BY <1>1, <1>2, <1>3, <1>6 DEF Kept, StateOK
<1>12. TransactionOf(p)'
  <2>0. /\ sent'[p] # <<>> /\ seen'[p] # <<>> /\ answer'[p] # <<>> /\ outcome'[p] = "none"
    BY <1>2, <1>6, <1>7, <1>9
  <2>1. PhaseOf(p)'
    BY <1>9, <2>0 DEF PhaseOf
  <2>2. AnswerOf(p)'
    BY <1>7, <1>8, <1>9 DEF AnswerOf
  <2> QED BY <1>7, <2>1, <2>2 DEF TransactionOf
<1>13. DecisionOf(p)'
  BY <1>2, <1>6 DEF DecisionOf, Rust!Decisions
<1> QED
  BY <1>7, <1>10, <1>11, <1>12, <1>13 DEF GoodStep

(* A good step of one transaction keeps the invariant of all of them. *)
LEMMA GoodForAll ==
  ASSUME ExchangeInv, NEW p \in Proc, GoodStep(p), Fixed,
         \A q \in Proc \ {p} : SameFor(q)
  PROVE  ExchangeInv'
<1>1. StateOK' /\ Kept
  BY DEF GoodStep
<1>2. ASSUME NEW q \in Proc
      PROVE  TransactionOf(q)' /\ ShownOf(q)' /\ DecisionOf(q)' /\ PlainOf(q)'
  <2>1. CASE q = p
    BY <2>1 DEF GoodStep
  <2>2. CASE q # p
    <3>1. SameFor(q)
      BY <2>2
    <3>2. TransactionOf(q) /\ ShownOf(q) /\ DecisionOf(q) /\ PlainOf(q)
      BY DEF ExchangeInv
    <3>3. TransactionOf(q)'
      BY <3>1, <3>2, Untouched
    <3>4. ShownOf(q)'
      <4>1. CASE seen[q] = <<>>
        BY <3>1, <4>1 DEF SameFor, ShownOf
      <4>2. CASE seen[q] # <<>>
        BY <1>1, <3>2, <4>2, ShownStays
      <4> QED BY <4>1, <4>2
    <3>5. DecisionOf(q)'
      BY <1>1, <3>1, <3>2, DecisionStays DEF SameFor
    <3>6. PlainOf(q)'
      BY <3>1, <3>2, PlainStays DEF SameFor
    <3> QED BY <3>3, <3>4, <3>5, <3>6
  <2> QED BY <2>1, <2>2
<1> QED
  BY <1>1, <1>2 DEF ExchangeInv

(* The clock, and what the user is shown, change no message. *)
LEMMA ClockStep ==
  ASSUME ExchangeInv,
         Tick \/ UNCHANGED vars \/ \E p \in Proc : ShowAlert(p) \/ ShowReason(p)
  PROVE  ExchangeInv'
<1>1. /\ Fixed /\ pc' = pc /\ sent' = sent /\ seen' = seen /\ answer' = answer
      /\ outcome' = outcome /\ changed' = changed
      /\ clock' = clock \/ (clock < MaxClock /\ clock' = clock + 1)
  BY DEF Tick, ShowAlert, ShowReason, vars, Fixed
<1>2. StateOK'
  <2>1. MaxClock \in Nat
    BY ExchangeAssumption
  <2> QED BY <1>1, <2>1 DEF ExchangeInv, StateOK, Fixed
<1>3. Kept /\ \A q \in Proc : SameFor(q)
  BY <1>1 DEF Kept, SameFor
<1>4. ASSUME NEW q \in Proc
      PROVE  TransactionOf(q)' /\ ShownOf(q)' /\ DecisionOf(q)' /\ PlainOf(q)'
  <2>1. TransactionOf(q) /\ ShownOf(q) /\ DecisionOf(q) /\ PlainOf(q)
    BY DEF ExchangeInv
  <2>2. TransactionOf(q)'
    BY <1>1, <1>3, <2>1, Untouched
  <2>3. ShownOf(q)'
    <3>1. CASE seen[q] = <<>>
      BY <1>1, <3>1 DEF ShownOf
    <3>2. CASE seen[q] # <<>>
      BY <1>1, <1>3, <2>1, <3>2, ShownStays
    <3> QED BY <3>1, <3>2
  <2>4. DecisionOf(q)' /\ PlainOf(q)'
    BY <1>1, <1>3, <2>1, DecisionStays, PlainStays
  <2> QED BY <2>2, <2>3, <2>4
<1> QED
  BY <1>2, <1>4 DEF ExchangeInv

(* No message has been made at the start. *)
LEMMA InitExchange == Init => ExchangeInv
<1> SUFFICES ASSUME Init PROVE ExchangeInv
  OBVIOUS
<1>1. StateOK
  BY ExchangeAssumption DEF Init, StateOK, Outcomes
<1>2. ASSUME NEW p \in Proc
      PROVE  TransactionOf(p) /\ ShownOf(p) /\ DecisionOf(p) /\ PlainOf(p)
  <2>1. /\ pc[p] = "idle" /\ sent[p] = <<>> /\ seen[p] = <<>> /\ answer[p] = <<>>
        /\ outcome[p] = "none"
    BY DEF Init
  <2>2. TransactionOf(p)
    BY <2>1 DEF TransactionOf, PhaseOf, SentOf, SeenOf, AnswerOf
  <2>3. ShownOf(p) /\ DecisionOf(p) /\ PlainOf(p)
    BY <2>1 DEF ShownOf, DecisionOf, PlainOf, Rust!Decisions
  <2> QED BY <2>2, <2>3
<1> QED
  BY <1>1, <1>2 DEF ExchangeInv

(* Every step keeps the invariant, one case for each action. *)
LEMMA NextExchange == ExchangeInv /\ [Next]_vars => ExchangeInv'
<1> SUFFICES ASSUME ExchangeInv, [Next]_vars PROVE ExchangeInv'
  OBVIOUS
<1>1. CASE Tick \/ UNCHANGED vars \/ \E p \in Proc : ShowAlert(p) \/ ShowReason(p)
  BY <1>1, ClockStep
<1>2. ASSUME NEW p \in Proc,
             \/ \E host \in HostConfigs[p] : Refuse(p, host) \/ Send(p, host)
             \/ AgentRefuses(p) \/ AgentAccepts(p) \/ AgentGivesUp(p)
             \/ \E d \in AgentDecisions : AgentAnswers(p, d) \/ FakeAgentAnswers(p, d)
             \/ HelperDecides(p)
      PROVE  ExchangeInv'
  <2>1. StateOK
    BY DEF ExchangeInv
  <2>2. Fixed /\ \A q \in Proc \ {p} : SameFor(q)
    BY <1>2, <2>1, StepOfOne
  <2>3. GoodStep(p)
    <3>1. CASE \E host \in HostConfigs[p] : Refuse(p, host) \/ Send(p, host)
      BY <3>1, RefuseStep, SendStep
    <3>2. CASE AgentRefuses(p) \/ AgentAccepts(p) \/ AgentGivesUp(p)
      BY <3>2, AgentRefusesStep, AgentAcceptsStep, AgentGivesUpStep
    <3>3. CASE \E d \in AgentDecisions : AgentAnswers(p, d) \/ FakeAgentAnswers(p, d)
      BY <3>3, AgentAnswersStep, FakeAgentAnswersStep
    <3>4. CASE HelperDecides(p)
      BY <3>4, HelperDecidesStep
    <3> QED BY <1>2, <3>1, <3>2, <3>3, <3>4
  <2> QED
    BY <2>2, <2>3, GoodForAll
<1> QED
  BY <1>1, <1>2 DEF Next

(* The invariant holds throughout. *)
LEMMA ExchangeInvariant == Spec => []ExchangeInv
BY InitExchange, NextExchange, PTL DEF Spec

-----------------------------------------------------------------------------

\* What the user was shown: LocalAuthentication asks only after the alert where one
\* is required, and an approval of the agent needs LocalAuthentication.
PromptsInv ==
  /\ shown \in [Proc -> SUBSET {"alert", "reason"}]
  /\ \A q \in Proc :
       /\ "reason" \in shown[q] /\ config.require_confirmation => "alert" \in shown[q]
       /\ config.agent = "serve" /\ answer[q] # <<>>
          /\ answer[q][1].body.decision = "approved" => "reason" \in shown[q]

(* The answer that handleServeRequest makes has the decision it was given. *)
LEMMA AnswerDecision ==
  ASSUME StateOK, NEW p \in Proc, NEW d \in AgentDecisions, AgentAnswers(p, d)
  PROVE  answer'[p][1].body.decision = d
<1>1. PICK r : r = Swift!ForRequest(seen[p][1], d, MacNow, ResponseMs, <<40>>)
  OBVIOUS
<1>2. answer' = [answer EXCEPT ![p] =
        <<[body |-> r, signature |-> [key |-> AgentKey, text |-> Swift!ResponseBytes(r)]]>>]
  BY <1>1 DEF AgentAnswers
<1>3. answer'[p][1].body = r
  BY <1>2 DEF StateOK
<1>4. r.decision = d
  BY <1>1 DEF Swift!ForRequest
<1> QED
  BY <1>3, <1>4

(* Every step keeps what the user was shown, and approves only on a reason. *)
LEMMA PromptsStep ==
  ASSUME ExchangeInv, PromptsInv, [Next]_vars
  PROVE  PromptsInv'
<1>0. StateOK
  BY DEF ExchangeInv
<1>1. CASE Tick \/ UNCHANGED vars
  BY <1>1 DEF Tick, vars, PromptsInv
<1>2. ASSUME NEW p \in Proc, ShowAlert(p) PROVE PromptsInv'
  BY <1>2 DEF ShowAlert, PromptsInv
<1>3. ASSUME NEW p \in Proc, ShowReason(p) PROVE PromptsInv'
  BY <1>3 DEF ShowReason, PromptsInv
<1>4. ASSUME NEW p \in Proc,
             \/ \E host \in HostConfigs[p] : Refuse(p, host) \/ Send(p, host)
             \/ AgentRefuses(p) \/ AgentAccepts(p) \/ AgentGivesUp(p) \/ HelperDecides(p)
      PROVE  PromptsInv'
  <2>1. UNCHANGED <<shown, answer, config>>
    BY <1>4 DEF Refuse, Send, AgentRefuses, AgentAccepts, AgentGivesUp, HelperDecides
  <2> QED
    BY <2>1 DEF PromptsInv
<1>5. ASSUME NEW p \in Proc, NEW d \in AgentDecisions, AgentAnswers(p, d) PROVE PromptsInv'
  <2>1. /\ UNCHANGED <<shown, config>> /\ d \in Decidable(p)
        /\ answer'[p][1].body.decision = d
    BY <1>0, <1>5, AnswerDecision DEF AgentAnswers
  <2>2. \A q \in Proc \ {p} : answer'[q] = answer[q]
    BY <1>0, <1>5, StepOfOne DEF SameFor
  <2>3. d = "approved" => "reason" \in shown[p]
    BY <2>1 DEF Decidable
  <2> QED
    BY <2>1, <2>2, <2>3 DEF PromptsInv
<1>6. ASSUME NEW p \in Proc, NEW d \in AgentDecisions, FakeAgentAnswers(p, d)
      PROVE  PromptsInv'
  <2>1. UNCHANGED <<shown, config>> /\ config.agent = "fake"
    BY <1>6 DEF FakeAgentAnswers
  <2> QED
    BY <2>1 DEF PromptsInv
<1> QED
  BY <1>1, <1>2, <1>3, <1>4, <1>5, <1>6 DEF Next

(* The invariant of what the user was shown holds throughout. *)
LEMMA PromptsInvariant == Spec => []PromptsInv
<1>1. Init => PromptsInv
  BY DEF Init, PromptsInv
<1>2. ExchangeInv /\ PromptsInv /\ [Next]_vars => PromptsInv'
  BY PromptsStep
<1> QED
  BY <1>1, <1>2, ExchangeInvariant, PTL DEF Spec

(* Every transaction has at most one request, one request shown and one answer, *)
(* and ends with one of the outcomes of run_request.                            *)
THEOREM TypeCorrect == Spec => []TypeOK
<1>1. ExchangeInv /\ PromptsInv => TypeOK
  <2> SUFFICES ASSUME ExchangeInv, PromptsInv PROVE TypeOK
    OBVIOUS
  <2>1. StateOK
    BY DEF ExchangeInv
  <2>2. ASSUME NEW p \in Proc
        PROVE  {Len(sent[p]), Len(seen[p]), Len(answer[p])} \subseteq 0..1
    <3>1. /\ sent[p] = <<>> \/ sent[p] = <<sent[p][1]>>
          /\ seen[p] = <<>> \/ seen[p] = <<seen[p][1]>>
          /\ answer[p] = <<>> \/ answer[p] = <<answer[p][1]>>
      BY DEF ExchangeInv, TransactionOf, SentOf, SeenOf, AnswerOf
    <3>2. \A s : s = <<>> \/ s = <<s[1]>> => Len(s) \in 0..1
      <4>1. ASSUME NEW s, s = <<>> PROVE Len(s) \in 0..1
        BY <4>1
      <4>2. ASSUME NEW s, NEW x, s = <<x>> PROVE Len(s) \in 0..1
        BY <4>2
      <4> QED BY <4>1, <4>2
    <3> QED BY <3>1, <3>2
  <2> QED
    BY <2>1, <2>2 DEF StateOK, PromptsInv, TypeOK
<1> QED
  BY <1>1, ExchangeInvariant, PromptsInvariant, PTL

(***************************************************************************)
(* verifyRequest: whatever the link brings on whatever connection, a       *)
(* request that the agent accepts and may show was signed field by field   *)
(* by the helper of some transaction, with the key the agent has for the   *)
(* host id shown; for all texts, hosts, keys and agents.                   *)
(***************************************************************************)
THEOREM NothingUnsignedIsShown == Spec => []ShownWasSigned
<1>1. ExchangeInv => ShownWasSigned
  BY DEF ExchangeInv, ShownOf, ShownWasSigned
<1> QED
  BY <1>1, ExchangeInvariant, PTL

(***************************************************************************)
(* verify_binding: a decision that a helper reports is one that the agent  *)
(* took on this helper's request, and every text the user was shown for it *)
(* says what PAM asked of that helper; an approval by the agent was given  *)
(* on localAuthenticationReason and, if required, on confirmationText.  A  *)
(* response to another request, or a changed one, never decides.           *)
(***************************************************************************)
THEOREM DecisionsAnswerPam == Spec => []DecisionIsAboutWhatPamAsked
<1>1. ExchangeInv /\ PromptsInv => DecisionIsAboutWhatPamAsked
  <2> SUFFICES ASSUME ExchangeInv, PromptsInv, NEW p \in Proc, outcome[p] \in Rust!Decisions
               PROVE  \E q \in Proc :
                        /\ seen[q] # <<>> /\ seen[q][1].nonce = Nonce[p]
                        /\ answer[q] # <<>> /\ answer[q][1].body.decision = outcome[p]
                        /\ "reason" \in shown[q] =>
                             Says(Swift!LocalAuthenticationReason(seen[q][1]), p)
                        /\ "alert" \in shown[q] =>
                             LET text == Swift!ConfirmationText(seen[q][1])
                             IN  /\ Says(text, p)
                                 /\ text.hostId = sent[p][1].body.linux_host_id
                                 /\ text.remoteHost = Swift!Detail(asked[p].rhost)
                        /\ outcome[p] = "approved" /\ config.agent = "serve" =>
                             /\ "reason" \in shown[q]
                             /\ config.require_confirmation => "alert" \in shown[q]
    BY DEF DecisionIsAboutWhatPamAsked
  <2>1. PICK q \in Proc : /\ seen[q] # <<>> /\ seen[q][1].nonce = Nonce[p]
                          /\ answer[q] # <<>> /\ answer[q][1].body.decision = outcome[p]
                          /\ AboutOf(p, q)
    BY DEF ExchangeInv, DecisionOf
  <2>2. Says(Swift!LocalAuthenticationReason(seen[q][1]), p)
    BY <2>1 DEF AboutOf, AsksFor, Says, Swift!LocalAuthenticationReason
  <2>3. LET text == Swift!ConfirmationText(seen[q][1])
        IN  /\ Says(text, p)
            /\ text.hostId = sent[p][1].body.linux_host_id
            /\ text.remoteHost = Swift!Detail(asked[p].rhost)
    BY <2>1 DEF AboutOf, AsksFor, Says, Swift!ConfirmationText
  <2>4. outcome[p] = "approved" /\ config.agent = "serve" =>
          /\ "reason" \in shown[q]
          /\ config.require_confirmation => "alert" \in shown[q]
    BY <2>1 DEF PromptsInv
  <2> WITNESS q \in Proc
  <2> QED
    BY <2>1, <2>2, <2>3, <2>4
<1> QED
  BY <1>1, ExchangeInvariant, PromptsInvariant, PTL

(***************************************************************************)
(* The Rust and the Swift implementation understand each other: with the   *)
(* right key and an unchanged message, neither side reports an impostor or *)
(* garbage, for every text PAM or the configuration may hold.              *)
(***************************************************************************)
THEOREM PlainExchangesWork == Spec => []PlainExchangeIsUnderstood
<1>1. ExchangeInv => PlainExchangeIsUnderstood
  BY DEF ExchangeInv, PlainOf, PlainExchangeIsUnderstood
<1> QED
  BY <1>1, ExchangeInvariant, PTL
==============================================================================
