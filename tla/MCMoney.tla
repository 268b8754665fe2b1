------------------------------- MODULE MCMoney -------------------------------
(***************************************************************************)
(* Instances of the components beside trading that handle money and the    *)
(* numbers it rests on.  They share no state the models keep, so that a    *)
(* behaviour is about one of them: part says which, and the setups of the  *)
(* others stay at one value.                                               *)
(***************************************************************************)
EXTENDS AmmPool, DepositClaims, Kyc, PnL, WalletDesk, PriceFeeds, FillDedup, AddressBook, TLC

VARIABLE part

\* One gateway with a seeded pool; one that seeds it; one that makes the first
\* deposit of liquidity; two gateways and the simulator.
Pool(gs, seeded, others, cols, n) ==
  [ops |-> n, gateways |-> gs, seeded |-> seeded, others |-> others, feeColumns |-> cols]
PoolSetups ==
  {Pool({"gw1"}, TRUE, {}, TRUE, 3), Pool({"gw1"}, FALSE, {"seeder"}, TRUE, 2), Pool({"gw1"}, FALSE, {}, TRUE, 3),
   Pool({"gw1", "gw2"}, TRUE, {"simulator"}, FALSE, 2)}

\* ann sends ether, and bob's tokens in a transaction of their own; of each claim
\* one is right and one is not, one txid is claimed twice, one in two spellings,
\* one asset is unknown.
Claim(u, n, a, amt, id) ==
  [user |-> u, network |-> n, asset |-> a, amount |-> amt, txid |-> id, wellFormed |-> TRUE]
AddressOf == "ann" :> "A" @@ "bob" :> "B"
Chain ==
  "t1" :> [network |-> "eth-mainnet", block |-> 1, ok |-> TRUE, native |-> [to |-> "A", value |-> 2], logs |-> {}] @@
  "t2" :> [network |-> "eth-mainnet", block |-> 0, ok |-> TRUE, native |-> [to |-> "C", value |-> 0],
           logs |-> {[asset |-> "USDT", to |-> "B", value |-> 3], [asset |-> "USDC", to |-> "A", value |-> 1]}]
Txids == "0xa1" :> "t1" @@ "0xA1" :> "t1" @@ "0xb2" :> "t2"
TwoClaims ==
  {1 :> Claim("ann", "eth-mainnet", "ETH", 2, "0xa1") @@ 2 :> Claim("bob", "eth-mainnet", "USDT", 3, "0xb2"),
   1 :> Claim("ann", "eth-mainnet", "ETH", 1, "0xa1") @@ 2 :> Claim("ann", "eth-mainnet", "ETH", 2, "0xa1"),
   1 :> Claim("ann", "eth-mainnet", "ETH", 2, "0xa1") @@ 2 :> Claim("ann", "eth-mainnet", "ETH", 2, "0xA1"),
   1 :> Claim("ann", "eth-mainnet", "USDC", 2, "0xb2"), 1 :> Claim("bob", "eth-mainnet", "BTC", 1, "0xa1")}

\* Two documents of a user; two gateways.
ReviewSetups == {[submissions |-> {1, 2}, gateways |-> {"g1"}], [submissions |-> {1}, gateways |-> {"g1", "g2"}]}

FillsSeen == {<<1, 3>>, <<2, 5>>, <<1, 5>>}
TwoQuotes == {[name |-> "USDT", base |-> "b"], [name |-> "USDC", base |-> "b"]}

\* One hash twice, then a transfer; a first deposit and two questions for an
\* address; addresses and transfers there and back.
Dep(u, h, a) == [kind |-> "deposit", user |-> u, hash |-> h, amount |-> a]
Ask(u) == [kind |-> "address", user |-> u]
Move(u, f, t, a) == [kind |-> "transfer", user |-> u, from |-> f, to |-> t, amount |-> a]
Opening(a, b) == "ann" :> a @@ "bob" :> b
DeskJobs ==
  {[jobs |-> 1 :> Dep("ann", "h", 2) @@ 2 :> Dep("ann", "h", 2) @@ 3 :> Move("ann", "spot", "futures", 2),
    opening |-> Opening(-1, 0), faults |-> 1],
   [jobs |-> 1 :> Dep("ann", "h", 2) @@ 2 :> Dep("bob", "", 1) @@ 3 :> Ask("ann") @@ 4 :> Ask("ann"),
    opening |-> Opening(-1, 1), faults |-> 1],
   [jobs |-> 1 :> Ask("bob") @@ 2 :> Ask("ann") @@ 3 :> Ask("ann") @@ 4 :> Move("bob", "spot", "futures", 1)
             @@ 5 :> Move("bob", "futures", "spot", 1) @@ 6 :> Move("bob", "spot", "spot", 1),
    opening |-> Opening(-1, 1), faults |-> 2]}

\* Every source and one correction; two corrections at once; a session that
\* grows too old.
Feed(m, p, r, e, t, f) == [messages |-> m, polls |-> p, requests |-> r, edits |-> e, maxTime |-> t, faults |-> f]
FeedSetups == {Feed(1, 1, 2, 1, 1, 0), Feed(0, 1, 2, 2, 0, 1), Feed(2, 0, 1, 0, 2, 1)}
Adjustments == {[mult |-> 2, offset |-> 1], [mult |-> 1, offset |-> 3]}

\* One process with room for two of three fills; one that restarts; two with a
\* shared store.
Dedup(shared, ps, fs, cap, ttl, n, t, f) ==
  [shared |-> shared, processes |-> ps, fills |-> fs, capacity |-> cap, ttl |-> ttl, deliveries |-> n, maxTime |-> t, faults |-> f]
DedupCases ==
  {Dedup(FALSE, {"g1"}, {"f1", "f2", "f3"}, 2, 1, 5, 2, 0), Dedup(FALSE, {"g1"}, {"f1", "f2"}, 1, 1, 3, 2, 1),
   Dedup(TRUE, {"g1", "g2"}, {"f1"}, 1, 1, 3, 1, 2)}

\* A database behind two gateways; two administrators at once; a gateway without.
Book(store, gs, as, ps, n, f) ==
  [store |-> store, gateways |-> gs, admins |-> as, payouts |-> ps, calls |-> n, faults |-> f]
BookCases ==
  {Book(TRUE, {"g1", "g2"}, {1}, {1}, 2, 1), Book(TRUE, {"g1"}, {1, 2}, {1}, 2, 1), Book(FALSE, {"g1"}, {1}, {1}, 3, 1)}
Lower == "0xAb" :> "0xab" @@ "0xab" :> "0xab" @@ "0xcd" :> "0xcd"

-----------------------------------------------------------------------------
vars == <<part, ammVars, claimVars, kycVars, pnlVars, deskVars, priceVars, dedupVars, bookVars>>

Init ==
  /\ part \in {"pool", "claims", "kyc", "pnl", "desk", "prices", "fills", "book"}
  /\ AmmInit /\ (part = "pool" \/ ammSetup = CHOOSE s \in AmmSetups : TRUE)
  /\ ClaimInit /\ (part = "claims" \/ filed = CHOOSE s \in ClaimSets : TRUE)
  /\ KycInit /\ (part = "kyc" \/ kycSetup = CHOOSE s \in KycSetups : TRUE)
  /\ PnlInit
  /\ DeskInit /\ (part = "desk" \/ deskSetup = CHOOSE s \in DeskSetups : TRUE)
  /\ PriceInit /\ (part = "prices" \/ priceSetup = CHOOSE s \in PriceSetups : TRUE)
  /\ DedupInit /\ (part = "fills" \/ dedupSetup = CHOOSE s \in DedupSetups : TRUE)
  /\ BookInit /\ (part = "book" \/ bookSetup = CHOOSE s \in BookSetups : TRUE)

Next ==
  \/ part = "pool" /\ AmmNext /\ UNCHANGED <<part, claimVars, kycVars, pnlVars, deskVars, priceVars, dedupVars, bookVars>>
  \/ part = "claims" /\ ClaimNext /\ UNCHANGED <<part, ammVars, kycVars, pnlVars, deskVars, priceVars, dedupVars, bookVars>>
  \/ part = "kyc" /\ KycNext /\ UNCHANGED <<part, ammVars, claimVars, pnlVars, deskVars, priceVars, dedupVars, bookVars>>
  \/ part = "pnl" /\ PnlNext /\ UNCHANGED <<part, ammVars, claimVars, kycVars, deskVars, priceVars, dedupVars, bookVars>>
  \/ part = "desk" /\ DeskNext /\ UNCHANGED <<part, ammVars, claimVars, kycVars, pnlVars, priceVars, dedupVars, bookVars>>
  \/ part = "prices" /\ PriceNext /\ UNCHANGED <<part, ammVars, claimVars, kycVars, pnlVars, deskVars, dedupVars, bookVars>>
  \/ part = "fills" /\ DedupNext /\ UNCHANGED <<part, ammVars, claimVars, kycVars, pnlVars, deskVars, priceVars, bookVars>>
  \/ part = "book" /\ BookNext /\ UNCHANGED <<part, ammVars, claimVars, kycVars, pnlVars, deskVars, priceVars, dedupVars>>

Spec == Init /\ [][Next]_vars
==============================================================================
