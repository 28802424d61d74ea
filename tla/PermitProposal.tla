--------------------------- MODULE PermitProposal ---------------------------
(***************************************************************************)
(* What a permit proposal may promise (packages/runner/src/pilot.ts,       *)
(* operating.ts, cost.ts): the owner's request and the provider's quote    *)
(* are judged, an accepted proposal becomes a permit, and a runner then    *)
(* spends inside it: compute up to the granted runtime, one disk and one   *)
(* address while the permit lives, egress up to the allowance.             *)
(*                                                                         *)
(* Time is counted in hours.  Money is counted in 1/52560 of a dime: 52560 *)
(* is a multiple of both months a disk is priced by, 730 h in a quote and  *)
(* 720 h in a cost report, so that no price is rounded.                    *)
(***************************************************************************)
EXTENDS Integers

CONSTANTS
    Lifetimes,     \* hours from now to the requested expiry
    Windows,       \* hours from now to the end of the measurement window
    Ages,          \* age of the quote in hours
    StartCounts,   \* requested starts
    Runtimes,      \* requested compute hours
    Ceilings,      \* requested ceilings, in dimes
    Committed,     \* what other enrollments' permits commit, in dimes
    ComputeRates, AddressRates,   \* dimes per hour
    DiskRates,     \* dimes per GiB and month
    Retentions,    \* hours of disk and address the quote covers
    Spells         \* hours of use in one step

ProposalAssumption ==
    /\ Lifetimes \subseteq Nat /\ Runtimes \subseteq Nat /\ Ceilings \subseteq Nat
    /\ ComputeRates \subseteq Nat /\ AddressRates \subseteq Nat /\ DiskRates \subseteq Nat
    /\ Retentions \subseteq Nat /\ Spells \subseteq Nat

Dime == 52560
NoPermit == [life |-> 0]
NoUse == [hours |-> 0, compute |-> 0, egress |-> 0]

VARIABLES input, phase, permit, used

vars == <<input, phase, permit, used>>

OPERATING_PERMIT_BOUNDS == [maxStarts |-> 600, maxRuntime |-> 150, maxTotalCost |-> 400, fleetCeiling |-> 4400]
-----------------------------------------------------------------------------
DiskSizeGiB == 80

\* What a quote charges for compute, disk, address and egress.
Priced(quote, compute, disk, address, egress) ==
    Dime * (compute * quote.computeRate + address * quote.addressRate + egress * quote.networkRate)
      + disk * DiskSizeGiB * quote.diskRate * (Dime \div 730)

calculatePilotQuoteMaximum(quote, runtime) ==
    Priced(quote, runtime, quote.diskHours, quote.addressHours, quote.egress)

calculateOperatingQuoteMaximum(quote, runtime, lifetime) ==
    Priced(quote, runtime, lifetime, lifetime, quote.egress)

\* estimateRunnerCost: the disk by the 30-day month, and no address.
EstimatedCost(rates, compute, disk, egress) ==
    Dime * (compute * rates.computeRate + egress * rates.networkRate)
      + disk * DiskSizeGiB * rates.diskRate * (Dime \div 720)

\* The quote is dated today or at most seven days back.
validRecentQuoteDate(age) == age \in 0..(7 * 24)

\* The checks both proposals share; flaw stands for one blank or malformed field.
CommonlyValid(in) ==
    /\ in.flaw = "none"
    /\ in.life > 0
    /\ in.starts >= 1 /\ in.runtime > 0 /\ in.ceiling > 0
    /\ validRecentQuoteDate(in.age)
    /\ in.quote.diskHours >= in.life
    /\ in.quote.addressHours >= in.life

\* The bug of a pilot quote that need not cover what the permit keeps.
AcceptedPilot(in) ==
    LET total == calculatePilotQuoteMaximum(in.quote, in.runtime)
    IN  /\ CommonlyValid(in)
        /\ in.starts <= 4 /\ in.runtime <= 6 /\ in.life <= 24 /\ in.ceiling <= 50
        /\ in.quote.total > 0 /\ in.quote.total = total
        /\ in.quote.total <= 50 * Dime /\ in.quote.total <= in.ceiling * Dime

buildPermitProposal(in) == AcceptedPilot(in)

buildOperatingPermitProposal(in) ==
    LET bounds == OPERATING_PERMIT_BOUNDS
        total == calculateOperatingQuoteMaximum(in.quote, in.runtime, in.life)
    IN  /\ CommonlyValid(in)
        /\ in.life <= in.window
        /\ in.starts <= bounds.maxStarts
        /\ in.runtime <= bounds.maxRuntime
        /\ in.ceiling <= bounds.maxTotalCost
        /\ in.committed + in.ceiling <= bounds.fleetCeiling
        /\ total > 0 /\ in.quote.total = total
        /\ total <= in.ceiling * Dime

\* A permit carries the proposal's limits; its egress is the quote's allowance.
renderOperatingPermit(in) ==
    [life |-> in.life, runtime |-> in.runtime, ceiling |-> in.ceiling, egress |-> in.quote.egress]
-----------------------------------------------------------------------------
QuoteGrid ==
    [computeRate : ComputeRates, addressRate : AddressRates, diskRate : DiskRates, networkRate : {1},
     diskHours : Retentions, addressHours : Retentions, egress : {0, 2}, total : {0}]

\* A supplied total is the pilot's or the operating calculation, or neither.
Totals(q, runtime, life) ==
    {1, calculatePilotQuoteMaximum(q, runtime), calculateOperatingQuoteMaximum(q, runtime, life)}

Quotes(runtime, life) ==
    UNION {{[q EXCEPT !.total = t] : t \in Totals(q, runtime, life)} : q \in QuoteGrid}

Flaws == {"none", "field"}

Init == /\ input = [kind |-> "none"] /\ phase = "request"
        /\ permit = NoPermit /\ used = NoUse

Request ==
    \E kind \in {"pilot", "operating"}, life \in Lifetimes, window \in Windows, age \in Ages,
       starts \in StartCounts, runtime \in Runtimes, ceiling \in Ceilings, committed \in Committed,
       flaw \in Flaws :
      \E quote \in Quotes(runtime, life) :
         input' = [kind |-> kind, life |-> life, window |-> window, age |-> age, starts |-> starts,
                   runtime |-> runtime, ceiling |-> ceiling, committed |-> committed, flaw |-> flaw,
                   quote |-> quote]

Accepted(in) == \/ in.kind = "pilot" /\ buildPermitProposal(in)
                \/ in.kind = "operating" /\ buildOperatingPermitProposal(in)

\* A request and its verdict; only an accepted one is worth a state of its own.
Propose ==
    /\ phase = "request"
    /\ Request
    /\ Accepted(input')
    /\ phase' = "proposed"
    /\ UNCHANGED <<permit, used>>

\* The owner confirms: the proposal's limits become the permit.
Confirm ==
    /\ phase = "proposed"
    /\ permit' = renderOperatingPermit(input)
    /\ phase' = "permitted"
    /\ UNCHANGED <<input, used>>

\* The disk and the address are held for some hours of the permit's life.
Use ==
    /\ phase = "permitted"
    /\ \E h \in Spells, running \in BOOLEAN, sent \in 0..1 :
          /\ used.hours + h <= permit.life
          /\ running => used.compute + h <= permit.runtime
          /\ used.egress + sent <= permit.egress
          /\ used' = [hours |-> used.hours + h, compute |-> used.compute + (IF running THEN h ELSE 0),
                      egress |-> used.egress + sent]
    /\ UNCHANGED <<input, phase, permit>>

Next == Propose \/ Confirm \/ Use

Spec == Init /\ [][Next]_vars
-----------------------------------------------------------------------------
\* Whatever a runner uses inside its permit costs at most the permit's ceiling at
\* the quoted prices, although the pilot's total is made from the quote's hours
\* and the operating total from the permit's (pilot.ts:403-413, operating.ts:130-135).
SpendWithinCeiling ==
    phase = "permitted" =>
        Priced(input.quote, used.compute, used.hours, used.hours, used.egress) <= permit.ceiling * Dime

\* "Conservative maximum for one operating permit ... the boot disk retained for
\* the whole permit lifetime" (operating.ts:75-78): the cost the program itself
\* reports of a permitted use is at most the quoted maximum.
ReportedWithinQuote ==
    phase = "permitted" =>
        EstimatedCost(input.quote, used.compute, used.hours, used.egress) <= input.quote.total
=============================================================================
