------------------------------ MODULE Pricing -------------------------------
(***************************************************************************)
(* What an order costs and who gets what: the fee engine                   *)
(* (src/src/pricing), the money arithmetic (src/src/platform/money.ts),    *)
(* the ledger entries of a placement and of its refund                     *)
(* (src/src/ledger/entries.ts) and the transfer to the stall               *)
(* (src/src/payments/split.ts).  Constant-level: Basket prices its orders  *)
(* with it, and Basket_proofs proves the books balance.                    *)
(***************************************************************************)
EXTENDS Integers

(* Basis points of an amount, rounded half up; every amount is a natural   *)
(* number of paise.                                                        *)
ApplyBps(amount, bps) == (amount * bps + 5000) \div 10000

NoRule == [type |-> "none", rate |-> 0, amount |-> 0, floor |-> 0, cap |-> 0, tax |-> 0]
Rate == 0..10000
FeeRule ==
  [type : {"none", "PERCENTAGE", "FLAT_PER_ORDER", "SUBSCRIPTION_MONTHLY"},
   rate : Rate, amount : Nat, floor : Nat, cap : Nat, tax : Rate]

(* What an order snapshots of the fees: the rule that applies to each      *)
(* party, the tax model and the settlement mode.                           *)
FeeTerms ==
  [customer : FeeRule, vendor : FeeRule, operator : FeeRule,
   s95 : BOOLEAN, collect : BOOLEAN]

(* A fee is clamped from below and then from above.                        *)
Clamp(amount, floor, cap) ==
  LET raised == IF amount < floor THEN floor ELSE amount
  IN IF raised > cap THEN cap ELSE raised

(* computeFee: an order carries nothing of a subscription.                 *)
Fee(rule, base) ==
  CASE rule.type = "PERCENTAGE" -> Clamp(ApplyBps(base, rule.rate), rule.floor, rule.cap)
    [] rule.type = "FLAT_PER_ORDER" -> Clamp(rule.amount, rule.floor, rule.cap)
    [] OTHER -> 0

FeeTax(rule, fee) == ApplyBps(fee, rule.tax)

-----------------------------------------------------------------------------
(* computeQuote.  The discount and the credit of the code have no caller   *)
(* and are zero.                                                           *)

Quote(subtotal, foodTax, terms) ==
  LET customer == IF terms.collect THEN terms.customer ELSE NoRule
      customerFee == Fee(customer, subtotal)
      customerFeeTax == FeeTax(customer, customerFee)
      gross == subtotal + foodTax + customerFee + customerFeeTax
      base == IF terms.s95 THEN subtotal ELSE subtotal + foodTax
      commission == Fee(terms.vendor, base)
      commissionTax == FeeTax(terms.vendor, commission)
      operatorShare == Fee(terms.operator, base)
      operatorShareTax == FeeTax(terms.operator, operatorShare)
      vendorNet == base - (commission + commissionTax + operatorShare + operatorShareTax)
      reserve == IF terms.s95 THEN foodTax ELSE 0
  IN [subtotal |-> subtotal, foodTax |-> foodTax,
      customerFee |-> customerFee, customerFeeTax |-> customerFeeTax,
      gross |-> gross,
      vendorNet |-> vendorNet, commission |-> commission, commissionTax |-> commissionTax,
      operatorShare |-> operatorShare, operatorShareTax |-> operatorShareTax,
      reserve |-> reserve,
      adjustment |-> gross - (vendorNet + reserve + commission + commissionTax
                              + operatorShare + operatorShareTax
                              + customerFee + customerFeeTax)]

(* FEE_CONFIG_EXCEEDS_ORDER refuses an order whose fees eat its stall.     *)
Priceable(quote) == quote.vendorNet >= 0

-----------------------------------------------------------------------------
(* The ledger.  push drops entries that are not positive.                  *)

Kept(amount) == IF amount > 0 THEN amount ELSE 0

(* orderPlacementEntries, by direction and party.                          *)
FromCustomer(q) ==
  Kept(q.subtotal) + Kept(q.foodTax) + Kept(q.customerFee) + Kept(q.customerFeeTax)
ToVendor(q) == Kept(q.vendorNet) + Kept(q.commission) + Kept(q.commissionTax)
ToOperator(q) == Kept(q.operatorShare) + Kept(q.operatorShareTax)
ToPlatform(q) ==
  Kept(q.reserve) + Kept(q.customerFee) + Kept(q.customerFeeTax) + Kept(q.adjustment)

PlacementEntries(q) ==
  [customer |-> FromCustomer(q), vendor |-> -ToVendor(q),
   operator |-> -ToOperator(q), platform |-> -ToPlatform(q)]

(* orderRefundEntries: one debit gives the customer the gross back, and    *)
(* every share of the placement is credited back.                          *)
RefundEntries(q) ==
  [customer |-> -Kept(q.gross), vendor |-> ToVendor(q),
   operator |-> ToOperator(q), platform |-> ToPlatform(q)]

NoEntries == [customer |-> 0, vendor |-> 0, operator |-> 0, platform |-> 0]
Total(entries) == entries.customer + entries.vendor + entries.operator + entries.platform

(* assertBalanced, for entries whose credits must come to the gross.       *)
Balanced(entries, q) == Total(entries) = 0 /\ entries.customer \in {q.gross, -q.gross}

-----------------------------------------------------------------------------
(* buildSplit: what is transferred to the stall out of what was collected. *)
Transfer(q, terms) == IF terms.collect THEN q.vendorNet ELSE 0
SplitRefused(q, terms) == Transfer(q, terms) > q.gross
=============================================================================
