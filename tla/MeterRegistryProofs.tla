------------------------- MODULE MeterRegistryProofs -------------------------
(***************************************************************************)
(* Proofs about MeterRegistry, for any meters, any number of keys and any  *)
(* hash functions of the bloom filter.                                     *)
(***************************************************************************)
EXTENDS MeterRegistry, TLAPS

\* What is on the wire: a rotation leads to the next key, which its meter has
\* made, and an enrolment that is still to take effect carries the first key.
WireInv ==
  /\ \A r \in requests : r.type = "rotate" =>
       r.new = r.signer + 1 /\ r.new <= newKey[r.meter]
  /\ \A r \in requests : r.type = "register" /\ status[r.meter] = "Unknown" =>
       r.public = 0

\* The meter is one rotation behind the registry at most, and was told of no
\* rotation that did not happen.
KeyInv ==
  /\ \A m \in Meters : newKey[m] \in {key[m], key[m] + 1}
  /\ \A m \in Meters : publicKey[m] \in {key[m], newKey[m]}
  /\ \A m \in Meters : status[m] = "Unknown" => key[m] = 0 /\ publicKey[m] = 0
  /\ \A a \in answers : status[a.meter] # "Unknown" /\ a.new <= publicKey[a.meter]
  /\ \A m \in Meters : \A k \in retired[m] : k < publicKey[m]

IInv == TypeOK /\ WireInv /\ KeyInv /\ CrlMatchesStatus

LEMMA KeysAreIntegers == Keys \subseteq Int
BY DEF Keys

LEMMA InitInv == Init => IInv
BY RegistryAssumption
DEF RegistryAssumption, Init, IInv, TypeOK, WireInv, KeyInv, CrlMatchesStatus,
    Keys, Enrolments, Rotations

-----------------------------------------------------------------------------
(* The meters *)

LEMMA SendRegisterStep ==
  ASSUME IInv, NEW m \in Meters, SendRegister(m)
  PROVE  IInv'
<1> USE DEF IInv
<1>1. TypeOK'
  BY DEF SendRegister, TypeOK, meterVars, Enrolments
<1>2. WireInv'
  BY DEF SendRegister, TypeOK, meterVars, WireInv, KeyInv
<1>3. KeyInv'
  BY DEF SendRegister, meterVars, KeyInv
<1>4. CrlMatchesStatus'
  BY DEF SendRegister, CrlMatchesStatus
<1> QED
  BY <1>1, <1>2, <1>3, <1>4

LEMMA SendRotateStep ==
  ASSUME IInv, NEW m \in Meters, SendRotate(m)
  PROVE  IInv'
<1> USE DEF IInv
<1>1. key[m] \in Keys /\ key[m] + 1 \in Keys /\ newKey[m] = key[m]
  BY RegistryAssumption DEF RegistryAssumption, SendRotate, TypeOK, Keys
<1>2. TypeOK'
  BY <1>1 DEF SendRotate, TypeOK, Rotations
<1>3. WireInv'
  <2>1. \A r \in requests : r.type = "rotate" => r.meter \in Meters
    BY DEF TypeOK, Enrolments, Rotations
  <2>2. \A r \in requests : r.type = "rotate" => r.new \in Int
    BY DEF TypeOK, Enrolments, Rotations, Keys
  <2>3. \A n \in Meters : newKey'[n] \in Int /\ newKey[n] <= newKey'[n]
    BY <1>1 DEF SendRotate, TypeOK, Keys
  <2>4. \A n \in Meters : newKey[n] \in Int
    BY DEF TypeOK, Keys
  <2>5. newKey'[m] = key[m] + 1
    BY DEF SendRotate, TypeOK
  <2>6. ASSUME NEW r \in requests', r.type = "rotate"
        PROVE  r.new = r.signer + 1 /\ r.new <= newKey'[r.meter]
    <3>1. CASE r \in requests
      BY <2>1, <2>2, <2>3, <2>4, <2>6, <3>1 DEF WireInv
    <3>2. CASE r = [type |-> "rotate", meter |-> m, signer |-> key[m],
                    new |-> key[m] + 1]
      BY <1>1, <2>5, <3>2 DEF Keys
    <3> QED
      BY <3>1, <3>2 DEF SendRotate
  <2>7. ASSUME NEW r \in requests', r.type = "register",
               status'[r.meter] = "Unknown"
        PROVE  r.public = 0
    BY <2>7 DEF SendRotate, WireInv
  <2> QED
    BY <2>6, <2>7 DEF WireInv
<1>4. KeyInv'
  BY <1>1 DEF SendRotate, TypeOK, KeyInv
<1>5. CrlMatchesStatus'
  BY DEF SendRotate, CrlMatchesStatus
<1> QED
  BY <1>2, <1>3, <1>4, <1>5

LEMMA HearRotatedStep ==
  ASSUME IInv, NEW m \in Meters, HearRotated(m)
  PROVE  IInv'
<1> USE DEF IInv
<1>1. TypeOK'
  BY DEF HearRotated, TypeOK
<1>2. WireInv'
  BY DEF HearRotated, WireInv
<1>3. status[m] # "Unknown" /\ publicKey[m] = newKey[m]
  <2>1. newKey[m] <= publicKey[m] /\ status[m] # "Unknown"
    BY DEF HearRotated, KeyInv
  <2>2. publicKey[m] = newKey[m] \/ publicKey[m] < newKey[m]
    BY DEF TypeOK, Keys, KeyInv
  <2> QED
    BY <2>1, <2>2 DEF TypeOK, Keys
<1>4. KeyInv'
  BY <1>3 DEF HearRotated, TypeOK, KeyInv
<1>5. CrlMatchesStatus'
  BY DEF HearRotated, CrlMatchesStatus
<1> QED
  BY <1>1, <1>2, <1>4, <1>5

-----------------------------------------------------------------------------
(* The registry *)

LEMMA RegisterStep ==
  ASSUME IInv, NEW r \in requests, NEW tpm \in Attestations, Register(r, tpm)
  PROVE  IInv'
<1> USE DEF IInv
<1>1. /\ r \in Enrolments
      /\ r.meter \in Meters /\ r.public \in Keys /\ r.type = "register"
  BY DEF Register, Enrolments
<1>2. status[r.meter] = "Unknown"
  BY DEF Register, RegisterAnswer, Attestations, Registered
<1>3. r.public = 0
  BY <1>1, <1>2 DEF WireInv
<1>4. TypeOK'
  BY <1>1 DEF Register, TypeOK, meterVars
<1>5. WireInv'
  BY <1>1 DEF Register, TypeOK, meterVars, WireInv
<1>6. publicKey' = publicKey
  BY <1>1, <1>2, <1>3 DEF Register, TypeOK, KeyInv
<1>7. KeyInv'
  BY <1>1, <1>2, <1>6 DEF Register, TypeOK, meterVars, KeyInv
<1>8. CrlMatchesStatus'
  BY <1>1, <1>2 DEF Register, TypeOK, CrlMatchesStatus
<1> QED
  BY <1>4, <1>5, <1>7, <1>8

LEMMA RotateStep ==
  ASSUME IInv, NEW r \in requests, Rotate(r)
  PROVE  IInv'
<1> USE DEF IInv
<1>1. PICK m \in Meters : m = r.meter
  BY DEF Rotate, Rotations
<1>2. /\ r.type = "rotate" /\ r.new \in Keys /\ r.signer \in Keys
      /\ status[m] = "Active" /\ r.signer = publicKey[m]
  BY <1>1 DEF Rotate, MayRotate, Rotations
<1>3. r.new = publicKey[m] + 1 /\ r.new = newKey[m]
  <2>1. r.new = publicKey[m] + 1 /\ r.new <= newKey[m]
    BY <1>1, <1>2 DEF WireInv
  <2> QED
    BY <2>1 DEF KeyInv, TypeOK, Keys
<1>4. TypeOK'
  BY <1>1, <1>2 DEF Rotate, TypeOK, meterVars
<1>5. WireInv'
  BY DEF Rotate, meterVars, WireInv
<1>6. KeyInv'
  <2>1. \A n \in Meters : publicKey[n] \in Int /\ publicKey'[n] \in Int
    BY <1>4 DEF TypeOK, Keys
  <2>2. /\ publicKey' = [publicKey EXCEPT ![m] = r.new]
        /\ retired' = [retired EXCEPT ![m] = @ \cup {publicKey[m]}]
        /\ answers' = answers \cup {[meter |-> m, new |-> r.new]}
        /\ UNCHANGED <<status, key, newKey>>
    BY <1>1 DEF Rotate, meterVars
  <2>3. \A n \in Meters : publicKey[n] <= publicKey'[n]
    BY <1>3, <2>1, <2>2 DEF TypeOK
  <2>4. ASSUME NEW a \in answers'
        PROVE  status'[a.meter] # "Unknown" /\ a.new <= publicKey'[a.meter]
    <3>1. CASE a \in answers
      <4>1. a.meter \in Meters /\ a.new \in Int
        BY <3>1 DEF TypeOK, Keys
      <4> QED
        BY <2>1, <2>2, <2>3, <3>1, <4>1 DEF KeyInv
    <3>2. CASE a = [meter |-> m, new |-> r.new]
      BY <1>2, <2>1, <2>2, <3>2 DEF TypeOK
    <3> QED
      BY <2>2, <3>1, <3>2
  <2>5. ASSUME NEW n \in Meters, NEW k \in retired'[n]
        PROVE  k < publicKey'[n]
    <3>1. k \in Int
      BY <1>4 DEF TypeOK, Keys
    <3>2. CASE k \in retired[n]
      BY <2>1, <2>3, <3>1, <3>2 DEF KeyInv
    <3>3. CASE n = m /\ k = publicKey[m]
      BY <1>3, <2>1, <2>2, <3>3 DEF TypeOK
    <3> QED
      BY <2>2, <2>5, <3>2, <3>3 DEF TypeOK
  <2>6. \A n \in Meters : publicKey'[n] \in {key'[n], newKey'[n]}
    BY <1>3, <2>2 DEF TypeOK, KeyInv
  <2>7. \A n \in Meters : status'[n] = "Unknown" => publicKey'[n] = 0
    BY <1>2, <2>2 DEF TypeOK, KeyInv
  <2> QED
    BY <2>2, <2>4, <2>5, <2>6, <2>7 DEF KeyInv
<1>7. CrlMatchesStatus'
  BY DEF Rotate, CrlMatchesStatus
<1> QED
  BY <1>4, <1>5, <1>6, <1>7

LEMMA RevokeStep ==
  ASSUME IInv, NEW m \in Meters, Revoke(m)
  PROVE  IInv'
<1> USE DEF IInv
<1>1. /\ status[m] # "Unknown"
      /\ status' = [status EXCEPT ![m] = "Revoked"]
      /\ bits' = bits \cup Indices[m]
      /\ UNCHANGED <<publicKey, key, newKey, requests, answers, retired>>
  BY DEF Revoke, Registered, Inserted, meterVars
<1>2. TypeOK'
  BY <1>1, RegistryAssumption DEF RegistryAssumption, TypeOK
<1>3. WireInv'
  <2>1. \A r \in requests : r.meter \in Meters
    BY DEF TypeOK, Enrolments, Rotations
  <2> QED
    BY <1>1, <2>1 DEF TypeOK, WireInv
<1>4. KeyInv'
  BY <1>1 DEF TypeOK, KeyInv
<1>5. CrlMatchesStatus'
  <2>1. {n \in Meters : status'[n] = "Revoked"}
          = {n \in Meters : status[n] = "Revoked"} \cup {m}
    BY <1>1 DEF TypeOK
  <2>2. UNION {Indices[n] : n \in {o \in Meters : status[o] = "Revoked"}
                                    \cup {m}}
          = (UNION {Indices[n] : n \in {o \in Meters : status[o] = "Revoked"}})
              \cup Indices[m]
    OBVIOUS
  <2> QED
    BY <1>1, <2>1, <2>2 DEF CrlMatchesStatus
<1> QED
  BY <1>2, <1>3, <1>4, <1>5

-----------------------------------------------------------------------------
(* Theorems *)

LEMMA Step == IInv /\ [Next]_vars => IInv'
<1> SUFFICES ASSUME IInv, [Next]_vars PROVE IInv'
  OBVIOUS
<1>1. ASSUME NEW m \in Meters,
             SendRegister(m) \/ SendRotate(m) \/ HearRotated(m) \/ Revoke(m)
      PROVE  IInv'
  BY <1>1, SendRegisterStep, SendRotateStep, HearRotatedStep, RevokeStep
<1>2. ASSUME UNCHANGED vars PROVE IInv'
  BY <1>2 DEF vars, meterVars, IInv, TypeOK, WireInv, KeyInv, CrlMatchesStatus
<1>3. ASSUME NEW r \in requests, Deliver(r) PROVE IInv'
  BY <1>2, <1>3, RegisterStep, RotateStep
  DEF Deliver, RegisterRefused, RotateRefused
<1> QED
  BY <1>1, <1>2, <1>3 DEF Next

LEMMA Invariance == Spec => []IInv
BY InitInv, Step, PTL DEF Spec

\* Every variable keeps its type (crypto.rs:7-21, 81-84).
THEOREM TypeCorrect == Spec => []TypeOK
<1>1. IInv => TypeOK
  BY DEF IInv
<1> QED
  BY Invariance, <1>1, PTL

\* No delayed or repeated request revives a replaced key (crypto.rs:101-103,
\* 172-188).
THEOREM RetiredKeysStayDead == Spec => []RetiredKeysAreDead
<1>1. IInv => RetiredKeysAreDead
  <2> SUFFICES ASSUME IInv, NEW m \in Meters, NEW k \in retired[m]
               PROVE  VerifyPacket(m, k) # "ok"
    BY DEF RetiredKeysAreDead
  <2>1. k # publicKey[m]
    BY DEF IInv, KeyInv, TypeOK, Keys
  <2>2. status[m] \in {"Unknown", "Active", "Revoked"}
    BY DEF IInv, TypeOK
  <2> QED
    BY <2>1, <2>2 DEF VerifyPacket, Registered
<1> QED
  BY Invariance, <1>1, PTL

\* No lost answer and no repeated request separates a meter from the registry
\* (crypto.rs:164-194).
THEOREM NeverStranded == Spec => []MeterNotStranded
<1>1. IInv => MeterNotStranded
  BY DEF IInv, KeyInv, MeterNotStranded
<1> QED
  BY Invariance, <1>1, PTL

\* The filter holds the revoked meters and nothing else (crypto.rs:68-79,
\* 196-202).
THEOREM CrlIsExact == Spec => []CrlMatchesStatus
<1>1. IInv => CrlMatchesStatus
  BY DEF IInv
<1> QED
  BY Invariance, <1>1, PTL

\* A meter refused as revoked stays refused (crypto.rs:101-103, 143-151).
THEOREM RevokedForGood == Spec => RevocationIsFinal
<1>1. ASSUME IInv, [Next]_vars PROVE RefusedForGood
  <2> SUFFICES ASSUME NEW m \in Meters, NEW k \in Keys, RefusedAsRevoked(m, k)
               PROVE  RefusedAsRevoked(m, k)'
    BY DEF RefusedForGood
  <2>1. /\ status[m] \in {"Active", "Revoked"}
        /\ status[m] = "Active" => InCrl(m)
    BY <1>1 DEF IInv, TypeOK, RefusedAsRevoked, VerifyPacket, Registered
  <2>2. /\ status'[m] \in {"Active", "Revoked"}
        /\ status[m] = "Revoked" => status'[m] = "Revoked"
        /\ bits \subseteq bits'
    <3>1. ASSUME NEW n \in Meters, Revoke(n)
          PROVE  /\ status'[m] \in {"Active", "Revoked"}
                 /\ status[m] = "Revoked" => status'[m] = "Revoked"
                 /\ bits \subseteq bits'
      BY <1>1, <2>1, <3>1 DEF IInv, TypeOK, Revoke, Inserted
    <3>2. ASSUME NEW r \in requests, NEW tpm \in Attestations, Register(r, tpm)
          PROVE  /\ status'[m] \in {"Active", "Revoked"}
                 /\ status[m] = "Revoked" => status'[m] = "Revoked"
                 /\ bits \subseteq bits'
      <4>1. status[r.meter] = "Unknown" /\ r.meter \in Meters
        BY <3>2 DEF Register, RegisterAnswer, Attestations, Registered, Enrolments
      <4> QED
        BY <1>1, <2>1, <3>2, <4>1 DEF IInv, TypeOK, Register
    <3>3. UNCHANGED <<status, bits>> =>
            /\ status'[m] \in {"Active", "Revoked"}
            /\ status[m] = "Revoked" => status'[m] = "Revoked"
            /\ bits \subseteq bits'
      BY <2>1
    <3>4. ASSUME NEW n \in Meters,
                 SendRegister(n) \/ SendRotate(n) \/ HearRotated(n)
          PROVE  UNCHANGED <<status, bits>>
      BY <3>4 DEF SendRegister, SendRotate, HearRotated
    <3>5. ASSUME NEW r \in requests, NEW tpm \in Attestations,
                 RegisterRefused(r, tpm) \/ Rotate(r) \/ RotateRefused(r)
          PROVE  UNCHANGED <<status, bits>>
      BY <3>5 DEF RegisterRefused, Rotate, RotateRefused, vars
    <3>6. UNCHANGED vars => UNCHANGED <<status, bits>>
      BY DEF vars
    <3> QED
      BY <1>1, <3>1, <3>2, <3>3, <3>4, <3>5, <3>6 DEF Next, Deliver, Attestations
  <2> QED
    BY <2>1, <2>2 DEF RefusedAsRevoked, VerifyPacket, Registered, InCrl
<1> QED
  BY Invariance, <1>1, PTL DEF Spec, RevocationIsFinal
=============================================================================
