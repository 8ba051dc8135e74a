-------------------------------- MODULE Lots --------------------------------
(***************************************************************************)
(* The integer arithmetic of one market: quote values of fills, the taker  *)
(* fee, and the 64-bit range every balance lives in.                       *)
(* Source: crates/clob-book/src/quantities, crates/clob-engine/src/fees.rs *)
(***************************************************************************)
EXTENDS Integers

CONSTANTS
  U64Max,                 \* largest value of the machine word (2^64 - 1 in the code)
  QuoteLotsPerLotPerTick, \* value of one base lot at a price of one tick
  TakerFeeBps,            \* taker fee in basis points
  BaseAtomsPerBaseLot,    \* base-token atoms per base lot
  QuoteAtomsPerQuoteLot   \* quote-token atoms per quote lot

BpsDenominator == 10000

(* What LotConfig::validate and FeeSchedule::validate let through.  The    *)
(* divisibility rule of validate is what makes QuoteLotsPerLotPerTick an   *)
(* integer with no remainder, at least 1.                                  *)
ASSUME LotsAssumption ==
  /\ U64Max \in Nat \ {0}
  /\ QuoteLotsPerLotPerTick \in Nat \ {0}
  /\ TakerFeeBps \in 0 .. BpsDenominator
  /\ BaseAtomsPerBaseLot \in Nat \ {0}
  /\ QuoteAtomsPerQuoteLot \in Nat \ {0}

U64 == 0 .. U64Max

MinOf(a, b) == IF a <= b THEN a ELSE b

(* LotConfig::quote_lots_for.  A value outside U64 is the None of the code. *)
QuoteLotsFor(price, size) == price * size * QuoteLotsPerLotPerTick

(* Mutant of FeeOn: truncating division. *)
FeeRoundedDown(gross) == (gross * TakerFeeBps) \div BpsDenominator

(* FeeSchedule::fee_on: the fee on one fill, rounded up. *)
FeeOn(gross) == (gross * TakerFeeBps + (BpsDenominator - 1)) \div BpsDenominator

BaseAtoms(lots) == lots * BaseAtomsPerBaseLot

QuoteAtoms(lots) == lots * QuoteAtomsPerQuoteLot
=============================================================================
