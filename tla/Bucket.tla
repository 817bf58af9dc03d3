------------------------------- MODULE Bucket -------------------------------
(***************************************************************************)
(* What the token bucket promises: a call takes its tokens and is granted, *)
(* or takes none and is refused because there are too few, at one instant. *)
(***************************************************************************)
EXTENDS Integers

CONSTANTS Calls, MaxTokens

VARIABLES
  tokens,  \* tokens left
  count,   \* what each call asks for
  verdict  \* "none", then "granted" or "refused", for each call

vars == <<tokens, count, verdict>>

Init ==
  /\ tokens = MaxTokens
  /\ count \in [Calls -> Nat]
  /\ verdict = [c \in Calls |-> "none"]

Grant(c) ==
  /\ verdict[c] = "none"
  /\ tokens >= count[c]
  /\ tokens' = tokens - count[c]
  /\ verdict' = [verdict EXCEPT ![c] = "granted"]
  /\ UNCHANGED count

Refuse(c) ==
  /\ verdict[c] = "none"
  /\ tokens < count[c]
  /\ verdict' = [verdict EXCEPT ![c] = "refused"]
  /\ UNCHANGED <<tokens, count>>

Next == \E c \in Calls : Grant(c) \/ Refuse(c)

Spec == Init /\ [][Next]_vars
=============================================================================
