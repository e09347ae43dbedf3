--------------------------- MODULE EmailDirectory ---------------------------
(***************************************************************************)
(* What the identity module promises about e-mail addresses, with every    *)
(* operation one atomic step: an account takes an address nobody else has. *)
(* Accounts.tla is the detailed specification; it is shown to implement    *)
(* this one.                                                               *)
(***************************************************************************)
CONSTANTS
  Accounts,        \* every account that is ever registered
  Addresses,       \* every e-mail address
  FirstAddress     \* the address of each at the start; something outside
                   \* Addresses when it is not registered yet

VARIABLE address   \* the address of each account

Init == address = FirstAddress

\* Registration of account a, or a change of its address.
Take(a, e) ==
  /\ \A b \in Accounts \ {a} : address[b] # e
  /\ address' = [address EXCEPT ![a] = e]

Next == \E a \in Accounts, e \in Addresses : Take(a, e)

Spec == Init /\ [][Next]_address
=============================================================================
