---------------------------- MODULE MeterRegistry ----------------------------
(***************************************************************************)
(* The meter registry of src/src/gateway/crypto.rs and its HTTP handlers:  *)
(* enrolment, key rotation, revocation, and the check of signed packets.   *)
(*                                                                         *)
(* The registry is under a std mutex that no handler holds across an       *)
(* await, so each method is one step; what interleaves are the requests.   *)
(* HTTP delivers a request late, again (a retry, a proxy) or never, and an *)
(* answer may be lost: a request once sent stays in `requests'.            *)
(*                                                                         *)
(* The meters are outside the repository.  What is assumed of one: it signs*)
(* with keys of its own, rotates to a key it never used, one at a time,    *)
(* and keeps both keys until it is told that the rotation is done.  The    *)
(* keys of a meter are numbered in the order it makes them.  Signatures    *)
(* are perfect: one verifies under the key that made it and no other.      *)
(***************************************************************************)
EXTENDS Integers

CONSTANTS
  Meters,
  KeyLimit,  \* a meter makes keys 0 .. KeyLimit
  Bits,      \* positions of the bloom filter
  Indices    \* the positions each meter id hashes to

ASSUME RegistryAssumption ==
  /\ KeyLimit \in Nat
  /\ Indices \in [Meters -> SUBSET Bits]

VARIABLES
  status,    \* "Unknown", "Active" or "Revoked" (nothing makes it Pending)
  publicKey, \* the key of each registered meter
  bits,      \* the bits that are set in the CRL
  key,       \* the key each meter signs with
  newKey,    \* the key it has asked to rotate to, or key itself
  requests,  \* requests sent, each delivered any number of times
  answers,   \* the rotations answered with "key-rotated"
  retired    \* history: the keys the registry had for each meter before

meterVars == <<key, newKey>>
vars == <<status, publicKey, bits, meterVars, requests, answers, retired>>

Keys == 0 .. KeyLimit

Registered(m) == status[m] # "Unknown"

Init ==
  /\ status = [m \in Meters |-> "Unknown"]
  /\ publicKey = [m \in Meters |-> 0]
  /\ bits = {}
  /\ key = [m \in Meters |-> 0]
  /\ newKey = [m \in Meters |-> 0]
  /\ requests = {}
  /\ answers = {}
  /\ retired = [m \in Meters |-> {}]

-----------------------------------------------------------------------------
(* The meters *)

Enrolments == [type : {"register"}, meter : Meters, public : Keys]
Rotations  == [type : {"rotate"}, meter : Meters, signer : Keys, new : Keys]

SendRegister(m) ==
  /\ requests' = requests \cup
       {[type |-> "register", meter |-> m, public |-> key[m]]}
  /\ UNCHANGED <<status, publicKey, bits, meterVars, answers, retired>>

SendRotate(m) ==
  /\ newKey[m] = key[m]
  /\ key[m] < KeyLimit
  /\ newKey' = [newKey EXCEPT ![m] = key[m] + 1]
  /\ requests' = requests \cup
       {[type |-> "rotate", meter |-> m, signer |-> key[m], new |-> key[m] + 1]}
  /\ UNCHANGED <<status, publicKey, bits, key, answers, retired>>

HearRotated(m) ==
  /\ newKey[m] # key[m]
  /\ [meter |-> m, new |-> newKey[m]] \in answers
  /\ key' = [key EXCEPT ![m] = newKey[m]]
  /\ UNCHANGED <<status, publicKey, bits, newKey, requests, answers, retired>>

-----------------------------------------------------------------------------
(* The registry *)

\* BloomFilter::contains.
InCrl(m) == Indices[m] \subseteq bits

\* Mutant of Inserted: ^= for |=.
Toggled(m) == (bits \ Indices[m]) \cup (Indices[m] \ bits)

\* BloomFilter::insert.
Inserted(m) == bits \cup Indices[m]

\* MeterRegistry::verify_packet, for a packet signed with k.
VerifyPacket(m, k) ==
  CASE ~ Registered(m)        -> "unknown meter"
    [] status[m] = "Revoked"  -> "meter is revoked"
    [] status[m] = "Active" /\ InCrl(m)     -> "meter certificate revoked"
    [] status[m] = "Active" /\ ~ InCrl(m)   ->
         IF k = publicKey[m] THEN "ok" ELSE "cryptographic signature mismatch"

\* The handler register_meter: what it answers a request whose attestation is
\* "absent" (or given without its key), "good", "bad" or not even "decodable".
Attestations == {"absent", "good", "bad", "malformed"}

RegisterAnswer(m, tpm) ==
  CASE tpm = "malformed"                     -> "bad request"
    [] tpm # "malformed" /\ Registered(m)    -> "conflict"
    [] tpm = "bad" /\ ~ Registered(m)        -> "bad request"
    [] tpm \in {"absent", "good"} /\ ~ Registered(m) -> "active"

\* Mutant of Register: HashMap::insert without contains_key.
RegisterOverwriting(r, tpm) ==
  /\ r \in requests \cap Enrolments
  /\ tpm \in {"absent", "good"}
  /\ status' = [status EXCEPT ![r.meter] = "Active"]
  /\ publicKey' = [publicKey EXCEPT ![r.meter] = r.public]
  /\ UNCHANGED <<bits, meterVars, requests, answers, retired>>

\* MeterRegistry::register_meter.
Register(r, tpm) ==
  /\ r \in requests \cap Enrolments
  /\ RegisterAnswer(r.meter, tpm) = "active"
  /\ status' = [status EXCEPT ![r.meter] = "Active"]
  /\ publicKey' = [publicKey EXCEPT ![r.meter] = r.public]
  /\ UNCHANGED <<bits, meterVars, requests, answers, retired>>

RegisterRefused(r, tpm) ==
  /\ r \in requests \cap Enrolments
  /\ RegisterAnswer(r.meter, tpm) # "active"
  /\ UNCHANGED vars

\* Mutant of MayRotate: the signature is not checked against the stored key.
MayRotateUnsigned(m, signer) == status[m] = "Active"

\* What rotate_key asks for: it looks at the status, not at the CRL.
MayRotate(m, signer) ==
  /\ status[m] = "Active"
  /\ signer = publicKey[m]

\* MeterRegistry::rotate_key.
Rotate(r) ==
  /\ r \in requests \cap Rotations
  /\ MayRotate(r.meter, r.signer)
  /\ publicKey' = [publicKey EXCEPT ![r.meter] = r.new]
  /\ retired' = [retired EXCEPT ![r.meter] = @ \cup {publicKey[r.meter]}]
  /\ answers' = answers \cup {[meter |-> r.meter, new |-> r.new]}
  /\ UNCHANGED <<status, bits, meterVars, requests>>

\* Also the answer to a retry of a rotation that was done.
RotateRefused(r) ==
  /\ r \in requests \cap Rotations
  /\ ~ MayRotate(r.meter, r.signer)
  /\ UNCHANGED vars

\* Mutant of Revoke: the meter is only suspended.
RevokeAsPending(m) ==
  /\ Registered(m)
  /\ status' = [status EXCEPT ![m] = "Pending"]
  /\ bits' = Inserted(m)
  /\ UNCHANGED <<publicKey, meterVars, requests, answers, retired>>

\* MeterRegistry::revoke_meter; no route leads to it, an operator calls it.
Revoke(m) ==
  /\ Registered(m)
  /\ status' = [status EXCEPT ![m] = "Revoked"]
  /\ bits' = Inserted(m)
  /\ UNCHANGED <<publicKey, meterVars, requests, answers, retired>>

Deliver(r) ==
  \/ \E tpm \in Attestations : Register(r, tpm) \/ RegisterRefused(r, tpm)
  \/ Rotate(r)
  \/ RotateRefused(r)

Next ==
  \/ \E m \in Meters :
       SendRegister(m) \/ SendRotate(m) \/ HearRotated(m) \/ Revoke(m)
  \/ \E r \in requests : Deliver(r)

Spec == Init /\ [][Next]_vars

-----------------------------------------------------------------------------
\* Every variable has its type.
TypeOK ==
  /\ status \in [Meters -> {"Unknown", "Active", "Revoked"}]
  /\ publicKey \in [Meters -> Keys]
  /\ bits \subseteq Bits
  /\ key \in [Meters -> Keys]
  /\ newKey \in [Meters -> Keys]
  /\ requests \subseteq Enrolments \cup Rotations
  /\ answers \subseteq [meter : Meters, new : Keys]
  /\ retired \in [Meters -> SUBSET Keys]

\* A key the registry has replaced never verifies a packet again, although
\* every enrolment and rotation ever sent may be delivered again, in any order
\* (crypto.rs:101-103, 172-188).
RetiredKeysAreDead ==
  \A m \in Meters : \A k \in retired[m] : VerifyPacket(m, k) # "ok"

\* Whichever answers were lost and requests repeated, an active meter can still
\* sign: the registry has the key it signs with, or the one it asked for
\* (crypto.rs:164-194).
MeterNotStranded ==
  \A m \in Meters :
    status[m] = "Active" => publicKey[m] \in {key[m], newKey[m]}

\* The filter holds exactly the revoked meters: it misses none of them, and it
\* rejects another one only when their bits together cover its own
\* (crypto.rs:68-79, 143-151, 196-202).
CrlMatchesStatus ==
  bits = UNION {Indices[m] : m \in {n \in Meters : status[n] = "Revoked"}}

\* A meter that is refused as revoked, rightly or by a collision in the filter,
\* is refused for good: no enrolment, rotation or further revocation brings it
\* back (crypto.rs:101-103, 143-151, 172-174).
RefusedAsRevoked(m, k) ==
  VerifyPacket(m, k) \in {"meter is revoked", "meter certificate revoked"}

RefusedForGood ==
  \A m \in Meters, k \in Keys : RefusedAsRevoked(m, k) => RefusedAsRevoked(m, k)'

RevocationIsFinal == [][RefusedForGood]_vars
=============================================================================
