----------------------------- MODULE MCSettlement -----------------------------
(* Small instances of Settlement for TLC. *)
EXTENDS Settlement, TLC

\* A renewal with a device in the same checkout, and an SMS pack.
MixedPayments == 1 .. 2
MixedKind == <<"subscription", "sms">>
MixedItems == <<Orders, {}>>

\* Two subscriptions at once, each with the same device.
RivalKind == <<"subscription", "subscription">>
RivalItems == <<Orders, Orders>>

\* One payment.
OnePayment == {1}
OneSms == <<"sms">>
OneWithOrders == <<Orders>>

\* Settlements in flight are interchangeable; so are clients, and orders.
Symmetric == Permutations(Settlers) \cup Permutations(Clients) \cup Permutations(Orders)
==============================================================================
