----------------------------- MODULE GuessLimit -----------------------------
(***************************************************************************)
(* What the ban list promises (RfbClientManager, MAX_BAN_COUNT, BAN_TIME): *)
(* between two times that its past is forgotten, an address guesses a      *)
(* wrong password at most Limit times.                                     *)
(***************************************************************************)
EXTENDS Naturals

CONSTANTS Addresses, Limit

VARIABLE guesses

Init == guesses = [a \in Addresses |-> 0]

\* A client at address a gives a wrong answer.
Guess(a) ==
  /\ guesses[a] < Limit
  /\ guesses' = [guesses EXCEPT ![a] = @ + 1]

\* The past of some addresses is forgotten, up to the guesses not counted yet.
Forget == guesses' \in [Addresses -> Nat] /\ \A a \in Addresses : guesses'[a] <= guesses[a]

Next == Forget \/ \E a \in Addresses : Guess(a)

Spec == Init /\ [][Next]_guesses
=============================================================================
