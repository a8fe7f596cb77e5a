-------------------------------- MODULE Voucher --------------------------------
(* What a one-time code promises: it is offered once, one holder takes it,   *)
(* and it is redeemed at most once, by that holder. Anything that has not    *)
(* been redeemed may become void, many at a time, and void is for ever.      *)
CONSTANT Vouchers
VARIABLE phase

Init == phase = [v \in Vouchers |-> "unused"]

Move(v, from, to) ==
  /\ phase[v] = from
  /\ phase' = [phase EXCEPT ![v] = to]

Offer(v) == Move(v, "unused", "open")
Take(v) == Move(v, "open", "taken")
Redeem(v) == Move(v, "taken", "redeemed")
Spoil(V) ==
  /\ \A v \in V : phase[v] # "redeemed"
  /\ phase' = [v \in Vouchers |-> IF v \in V THEN "void" ELSE phase[v]]

Next ==
  \/ \E v \in Vouchers : Offer(v) \/ Take(v) \/ Redeem(v)
  \/ \E V \in SUBSET Vouchers : Spoil(V)

Spec == Init /\ [][Next]_phase
================================================================================
