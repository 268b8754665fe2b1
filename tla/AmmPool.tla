------------------------------ MODULE AmmPool ------------------------------
(***************************************************************************)
(* One constant-product pool: the requests of internal/api/amm_handler.go, *)
(* the operations of internal/amm/service.go and the rows of               *)
(* internal/store/pg_amm.go, with the simulator of internal/market that    *)
(* moves the same row.  An operation reads the pool row, settles the       *)
(* wallets, writes the row back whole, then its position or the fees: four *)
(* statements and no transaction around them.  The service's mutex keeps   *)
(* the operations of one gateway apart; two gateways, and the simulator,   *)
(* which does not take the mutex, are apart only by luck.                  *)
(*                                                                         *)
(* Amounts are whole units of the 18th decimal, the last one the rows      *)
(* keep: a quotient is rounded to the nearest unit, as textF prints it.    *)
(***************************************************************************)
EXTENDS Integers, FiniteSets, FiniteSetsExt, Functions

CONSTANTS
  AmmUsers,
  AmmStart,       \* what each user's wallet holds of each token at the start
  SeedReserve,    \* the reserves a default pool is seeded with
  FeeNum, FeeDen, \* the pool's fee rate
  AmmAmounts,     \* the amounts of requests
  AmmSetups,      \* gateways, who else writes the row, a bound on the operations
  MaxAmmFaults    \* bound: faults

Tokens == {0, 1}

ASSUME AmmAssumption ==
  /\ IsFiniteSet(AmmUsers) /\ AmmStart \in Nat /\ SeedReserve \in Nat \ {0}
  /\ FeeNum \in Nat /\ FeeDen \in Nat \ {0} /\ FeeNum < FeeDen
  /\ AmmAmounts \subseteq Nat \ {0}
  /\ MaxAmmFaults \in Nat
  /\ \A s \in AmmSetups :
       /\ s.seeded \in BOOLEAN /\ s.feeColumns \in BOOLEAN /\ s.ops \in Nat
       /\ IsFiniteSet(s.gateways) /\ s.gateways \cap {"simulator", "seeder"} = {}
       /\ s.others \subseteq {"simulator", "seeder"}

VARIABLES
  ammSetup,     \* the one of AmmSetups this behaviour is about
  ammPool,      \* the row of amm_pools: reserves, LP shares, protocol fees
  ammWallet,    \* the users' spot balances of the two tokens
  ammShares,    \* the rows of amm_liquidity
  ammOp,        \* what each gateway, and each writer beside them, has in hand
  ammLost,      \* what operations that broke off left unmatched, by token and "lp"
  ammOps, ammFaults   \* operations begun, faults so far

ammVars == <<ammSetup, ammPool, ammWallet, ammShares, ammOp, ammLost, ammOps, ammFaults>>

-----------------------------------------------------------------------------
(* Arithmetic *)

Quo(a, b) == (2 * a + b) \div (2 * b)
Sqrt(x)   == CHOOSE r \in 0..x : r * r <= x /\ (r + 1) * (r + 1) > x
Zero      == [t \in Tokens |-> 0]

EmptyPool == [reserve |-> Zero, lp |-> 0, fees |-> Zero]
Seeded(p) ==
  [p EXCEPT !.reserve = [t \in Tokens |-> SeedReserve], !.lp = Sqrt(SeedReserve * SeedReserve)]

\* What an operation adds to the reserves, the protocol fees and the shares
\* of the pool it read.
Change(delta, fee, lp) == [delta |-> delta, fee |-> fee, lp |-> lp]
Both(t, x, y)          == [s \in Tokens |-> IF s = t THEN x ELSE y]

DepositOf(p, a) ==
  IF p.lp = 0 THEN Change(a, Zero, Sqrt(a[0] * a[1]))
  ELSE Change(Both(0, a[0], Min({a[1], Quo(a[0] * p.reserve[1], p.reserve[0])})),
              Zero, Quo(a[0] * p.lp, p.reserve[0]))

BurnOf(p, s) == Change([t \in Tokens |-> -Quo(s * p.reserve[t], p.lp)], Zero, -s)

Tradable(p) == \A t \in Tokens : p.reserve[t] > 0
FeeOf(a)    == Quo(a * FeeNum, FeeDen)
AmountOut(p, in, a) ==
  LET net == a - FeeOf(a) IN Quo(p.reserve[1 - in] * net, p.reserve[in] + net)
\* MUTANT for SwapKeepsProduct: the fee goes into the reserves as well.
Mutant_FullInput(p, in, a) == Change(Both(in, a, -AmountOut(p, in, a)), Zero, 0)
SwapOf(p, in, a) == Change(Both(in, a - FeeOf(a), -AmountOut(p, in, a)), Both(in, FeeOf(a), 0), 0)

\* What the handlers let through: amounts above zero, min_amount_out or none.
AddRequests    == [Tokens -> AmmAmounts]
RemoveRequests == AmmAmounts
SwapRequests   == [in : Tokens, amount : AmmAmounts, min : {0} \cup AmmAmounts]

-----------------------------------------------------------------------------
(* Operations.  Each begins by taking the gateway's mutex and reading. *)

Writers == ammSetup.gateways \cup {"simulator"}
Idle    == [step |-> "idle"]

Begin(w, kind, u, step, change) ==
  /\ ammOp[w].step = "idle" /\ ammOps < ammSetup.ops
  /\ ammOp' = [ammOp EXCEPT ![w] =
       [step |-> step, kind |-> kind, user |-> u, read |-> ammPool, change |-> change,
        position |-> IF kind = "remove" THEN ammShares[u] ELSE 0, unread |-> FALSE]]
  /\ ammOps' = ammOps + 1
  /\ UNCHANGED <<ammSetup, ammPool, ammWallet, ammShares, ammLost, ammFaults>>

\* Division by a reserve that rounding has emptied under the shares that are left
\* panics, or gives an infinity that no row holds: such a request is left out.
AddLiquidity(g) ==
  /\ ammPool.lp = 0 \/ ammPool.reserve[0] > 0
  /\ \E u \in AmmUsers, a \in AddRequests : Begin(g, "add", u, "settle", DepositOf(ammPool, a))

RemoveLiquidity(g) ==
  \E u \in AmmUsers, s \in RemoveRequests :
     /\ 0 < ammPool.lp /\ s <= ammPool.lp /\ s <= ammShares[u]
     /\ Begin(g, "remove", u, "settle", BurnOf(ammPool, s))

ExecuteSwap(g) ==
  \E u \in AmmUsers, r \in SwapRequests :
     /\ Tradable(ammPool)
     /\ r.min = 0 \/ AmountOut(ammPool, r.in, r.amount) >= r.min
     /\ Begin(g, "swap", u, "settle", SwapOf(ammPool, r.in, r.amount))

\* The simulator's tick: the same arithmetic, nobody's wallet, no mutex.
ApplySimulatedSwap ==
  /\ "simulator" \in ammSetup.others
  /\ Tradable(ammPool)
  /\ \E in \in Tokens, a \in AmmAmounts :
       Begin("simulator", "simulated", CHOOSE u \in AmmUsers : TRUE, "reserves", SwapOf(ammPool, in, a))

After(w, step) == ammOp' = [ammOp EXCEPT ![w] = IF step = "idle" THEN Idle ELSE [@ EXCEPT !.step = step]]

\* One transaction over the user's two wallets: refused when one is short.
\* MUTANT for PoolBacked: the wallet is not charged the fee.
Mutant_NetCharge(o) == [t \in Tokens |-> ammWallet[o.user][t] - o.change.delta[t]]
WalletAfter(o) == [t \in Tokens |-> ammWallet[o.user][t] - o.change.delta[t] - o.change.fee[t]]
SettleSwap(w) ==
  LET o == ammOp[w] IN
  /\ o.step = "settle"
  /\ IF \A t \in Tokens : WalletAfter(o)[t] >= 0
     THEN ammWallet' = [ammWallet EXCEPT ![o.user] = WalletAfter(o)] /\ After(w, "reserves")
     ELSE ammWallet' = ammWallet /\ After(w, "idle")
  /\ UNCHANGED <<ammSetup, ammPool, ammShares, ammLost, ammOps, ammFaults>>

\* The whole row is written from the copy read at the start.
UpdatePoolReserves(w) ==
  LET o == ammOp[w] IN
  /\ o.step = "reserves"
  /\ ammPool' = [ammPool EXCEPT
       !.reserve = [t \in Tokens |-> o.read.reserve[t] + o.change.delta[t]],
       !.lp = o.read.lp + o.change.lp]
  /\ After(w, CASE o.kind = "add" -> "position"
                [] o.kind = "remove" -> "save"
                [] o.kind = "swap" /\ o.change.fee # Zero -> "fees"
                [] OTHER -> "idle")
  /\ UNCHANGED <<ammSetup, ammWallet, ammShares, ammLost, ammOps, ammFaults>>

\* A no-op before migration 008.
UpdatePoolProtocolFees(w) ==
  LET o == ammOp[w] IN
  /\ o.step = "fees"
  /\ ammPool' = IF ammSetup.feeColumns
       THEN [ammPool EXCEPT !.fees = [t \in Tokens |-> o.read.fees[t] + o.change.fee[t]]] ELSE ammPool
  /\ After(w, "idle")
  /\ UNCHANGED <<ammSetup, ammWallet, ammShares, ammLost, ammOps, ammFaults>>

\* AddLiquidity merges with the position there is, and takes a failed read for
\* no position at all.
GetPositionByPool(w) ==
  LET o == ammOp[w] IN
  /\ o.step = "position"
  /\ \/ /\ ammOp' = [ammOp EXCEPT ![w] = [o EXCEPT !.step = "save", !.position = ammShares[o.user]]]
        /\ UNCHANGED ammFaults
     \/ /\ ammFaults < MaxAmmFaults
        /\ ammOp' = [ammOp EXCEPT ![w] = [o EXCEPT !.step = "save", !.unread = TRUE]]
        /\ ammFaults' = ammFaults + 1
  /\ UNCHANGED <<ammSetup, ammPool, ammWallet, ammShares, ammLost, ammOps>>

SavePosition(w) ==
  LET o == ammOp[w] IN
  /\ o.step = "save"
  /\ ammShares' = [ammShares EXCEPT ![o.user] = o.position + o.change.lp]
  /\ ammLost' = IF o.unread THEN [ammLost EXCEPT !.lp = @ + ammShares[o.user]] ELSE ammLost
  /\ After(w, "idle")
  /\ UNCHANGED <<ammSetup, ammPool, ammWallet, ammOps, ammFaults>>

\* What the wallets have paid and the pool's rows do not show yet.
Unwritten(w, t) ==
  LET o == ammOp[w] IN
  CASE o.step = "reserves" /\ o.kind # "simulated" -> o.change.delta[t] + o.change.fee[t]
    [] o.step = "fees" -> o.change.fee[t]
    [] OTHER -> 0
UnwrittenShares(w) == IF ammOp[w].step \in {"position", "save"} THEN ammOp[w].change.lp ELSE 0

\* A statement fails, or the process dies: nothing undoes the ones before it.
BreakOff(w) ==
  /\ ammOp[w].step # "idle" /\ ammFaults < MaxAmmFaults
  /\ ammFaults' = ammFaults + 1
  /\ ammLost' = [tokens |-> [t \in Tokens |-> ammLost.tokens[t] + Unwritten(w, t)],
                 lp |-> ammLost.lp + UnwrittenShares(w)]
  /\ After(w, "idle")
  /\ UNCHANGED <<ammSetup, ammPool, ammWallet, ammShares, ammOps>>

\* bootstrapAMMPools lists the pools without the mutex and seeds an empty one
\* under it; the admin's /amm/seed does the same while users trade.
ListPools ==
  /\ "seeder" \in ammSetup.others /\ ammOp["seeder"].step = "idle" /\ ammOps < ammSetup.ops
  /\ ~Tradable(ammPool)
  /\ ammOp' = [ammOp EXCEPT !["seeder"] = [step |-> "listed"]]
  /\ ammOps' = ammOps + 1
  /\ UNCHANGED <<ammSetup, ammPool, ammWallet, ammShares, ammLost, ammFaults>>

SeedPoolReserves ==
  /\ ammOp["seeder"].step = "listed"
  /\ \E g \in ammSetup.gateways : ammOp[g].step = "idle"
  /\ ammPool' = Seeded(ammPool)
  /\ ammOp' = [ammOp EXCEPT !["seeder"] = Idle]
  /\ UNCHANGED <<ammSetup, ammWallet, ammShares, ammLost, ammOps, ammFaults>>

AmmInit ==
  /\ ammSetup \in AmmSetups
  /\ ammPool = IF ammSetup.seeded THEN Seeded(EmptyPool) ELSE EmptyPool
  /\ ammWallet = [u \in AmmUsers |-> [t \in Tokens |-> AmmStart]]
  /\ ammShares = [u \in AmmUsers |-> 0]
  /\ ammOp = [w \in ammSetup.gateways \cup {"simulator", "seeder"} |-> Idle]
  /\ ammLost = [tokens |-> Zero, lp |-> 0]
  /\ ammOps = 0 /\ ammFaults = 0

AmmRequest(g) == AddLiquidity(g) \/ RemoveLiquidity(g) \/ ExecuteSwap(g)
AmmStep(w) == \/ SettleSwap(w) \/ UpdatePoolReserves(w) \/ UpdatePoolProtocolFees(w)
              \/ GetPositionByPool(w) \/ SavePosition(w)
AmmNext ==
  \/ \E g \in ammSetup.gateways : AmmRequest(g)
  \/ ApplySimulatedSwap
  \/ \E w \in Writers : AmmStep(w) \/ BreakOff(w)
  \/ ListPools \/ SeedPoolReserves

AmmSpec == AmmInit /\ [][AmmNext]_ammVars

-----------------------------------------------------------------------------
(* Properties *)

\* One writer of the row at a time: one gateway, its mutex, nobody beside it.
OneWriter == Cardinality(ammSetup.gateways) = 1 /\ ammSetup.others = {} /\ ammSetup.feeColumns

\* The shares the seed stands for, which are nobody's, and those of users.
SharesOwned ==
  (IF ammSetup.seeded THEN Seeded(EmptyPool).lp ELSE 0) + MapThenSumSet(LAMBDA u : ammShares[u], AmmUsers)

\* What users hold of a token, and what writers have in hand of it and of shares.
Held(t)      == [u \in AmmUsers |-> ammWallet[u][t]]
InHand(t)    == [w \in Writers |-> Unwritten(w, t)]
SharesInHand == [w \in Writers |-> UnwrittenShares(w)]

\* Every unit a wallet paid is in the reserves or the protocol fees and every
\* share issued is somebody's, but for what an operation in hand has not yet
\* written and what operations that broke off between two statements left.
\* Swaps, deposits and burns of two users, a fault at any statement.
PoolBacked ==
  OneWriter =>
    /\ \A t \in Tokens :
         MapThenSumSet(LAMBDA u : Held(t)[u], AmmUsers) + ammPool.reserve[t] + ammPool.fees[t]
           + MapThenSumSet(LAMBDA w : InHand(t)[w], Writers) + ammLost.tokens[t]
         = Cardinality(AmmUsers) * AmmStart + (IF ammSetup.seeded THEN SeedReserve ELSE 0)
    /\ ammPool.lp = SharesOwned
         + MapThenSumSet(LAMBDA w : SharesInHand[w], Writers) + ammLost.lp

\* A swap leaves the product of the reserves where it was, up to the rounding
\* of the output to a unit: the fee is not put into the reserves, and the
\* output does not come out of the other liquidity providers' part.
Product(p) == p.reserve[0] * p.reserve[1]
SwapKeepsProduct ==
  [][\A w \in Writers :
       UpdatePoolReserves(w) /\ ammOp[w].kind \in {"swap", "simulated"} =>
         LET drift == Product(ammPool') - Product(ammOp[w].read)
         IN  \A in \in Tokens : ammOp[w].change.delta[in] > 0 =>
               2 * drift \in -ammPool'.reserve[in]..ammPool'.reserve[in]]_ammVars

\* "Reload the pool from the store so a real swap that landed since the last
\* tick is reflected before we perturb further" (amm_feed.go): with one gateway
\* and no fault, when nobody is at work the pool has the shares its positions
\* claim.  The simulator's write takes back a deposit that landed between its
\* read and its write.
LandedChangesReflected ==
  ammFaults = 0 /\ (\A w \in DOMAIN ammOp : ammOp[w].step = "idle") => ammPool.lp = SharesOwned
=============================================================================
