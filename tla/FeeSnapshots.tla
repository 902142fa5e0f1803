---------------------------- MODULE FeeSnapshots ----------------------------
(***************************************************************************)
(* What the node operator is charged for the period between two reports:   *)
(* the fee snapshot at the block of each report, read from the Dashboard   *)
(* that owned the vault then, and no-fee-snapshot.utils.ts, which takes a  *)
(* pair out of the calculation when the accrual was stopped at an end.     *)
(***************************************************************************)
EXTENDS Integers

CONSTANTS
  MAX_SANE_SETTLED_GROWTH,  \* settledGrowth of a Dashboard whose accrual is stopped
  FeeBase,                  \* 100 %, in units of the fee rate
  NoSnapshot                \* null

\* What VaultHub and the owner answer at the block of a report.  The hub names the zero
\* address when the vault was not connected; an account or another contract may own it.
OwnerAt(settled, rates) ==
  [kind : {"nobody", "account", "dashboard"}, settledGrowth : settled, feeRate : rates]

\* The columns of a report leaf that the fee needs.
Leaf(totals, deltas) == [totalValueWei : totals, inOutDelta : deltas]

\* calcAccruedFeeOffChain of lsv-cli, external: the fee on the growth not settled yet.
CalcAccruedFeeOffChain(leaf, settledGrowth, feeRate) ==
  LET unsettled == leaf.totalValueWei - leaf.inOutDelta - settledGrowth
  IN  IF unsettled > 0 THEN (unsettled * feeRate) \div FeeBase ELSE 0

\* DashboardContractFactory.get: every address gets a reader, the zero address too, since
\* it is not empty; Multicall3 is looked up in the network file.
DashboardReader(owner, multicall3) == [at |-> owner, multicall3 |-> multicall3]

\* Both values come from one aggregate3 call through Multicall3, so from one block; the
\* call throws without an address of Multicall3 and when the owner is no Dashboard.
GetSettledGrowthAndFeeRate(reader) ==
  IF reader.multicall3 /\ reader.at.kind = "dashboard"
  THEN [settledGrowth |-> reader.at.settledGrowth, feeRate |-> reader.at.feeRate]
  ELSE NoSnapshot

\* fetchMethod of noFeeSnapshotCache: whatever throws makes the snapshot null.
NOFeeSnapshot(owner, leaf, multicall3) ==
  LET read == GetSettledGrowthAndFeeRate(DashboardReader(owner, multicall3))
  IN  IF read = NoSnapshot THEN NoSnapshot
      ELSE [settledGrowth |-> read.settledGrowth, feeRate |-> read.feeRate,
            accruedFee |-> CalcAccruedFeeOffChain(leaf, read.settledGrowth, read.feeRate)]

EMPTY_NO_FEE_SNAPSHOT == [settledGrowth |-> 0, feeRate |-> 0, accruedFee |-> 0]

IsFeeAccrualStopped(snapshot) == snapshot.settledGrowth >= MAX_SANE_SETTLED_GROWTH

\* Mutant: only the previous end is looked at.
NeutralizeByPrevious(curr, prev) ==
  IF ~IsFeeAccrualStopped(prev) THEN [curr |-> curr, prev |-> prev]
  ELSE [curr |-> EMPTY_NO_FEE_SNAPSHOT, prev |-> EMPTY_NO_FEE_SNAPSHOT]

NeutralizeStoppedFeeAccrual(curr, prev) ==
  IF ~IsFeeAccrualStopped(curr) /\ ~IsFeeAccrualStopped(prev) THEN [curr |-> curr, prev |-> prev]
  ELSE [curr |-> EMPTY_NO_FEE_SNAPSHOT, prev |-> EMPTY_NO_FEE_SNAPSHOT]

\* calcNoEarnings of lsv-cli, external.
CalcNoEarnings(s) == (s.settledGrowth * s.feeRate) \div FeeBase + s.accruedFee

\* nodeOperatorRewards of reportMetrics: what the operator earned in the period, never less
\* than nothing (feeForPeriod in no-fee-snapshot.utils.spec.ts).
NodeOperatorRewards(curr, prev) ==
  LET ends == NeutralizeStoppedFeeAccrual(curr, prev)
      delta == CalcNoEarnings(ends.curr) - CalcNoEarnings(ends.prev)
  IN  IF delta > 0 THEN delta ELSE 0
=============================================================================
