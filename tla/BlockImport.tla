---------------------------- MODULE BlockImport ----------------------------
(***************************************************************************)
(* The execution of blocks by the worker and by the importer               *)
(* (StateTransition), under names that can stand beside those of the       *)
(* fetcher and of the downloader.                                          *)
(***************************************************************************)

CONSTANTS
    Holder,                 \* the accounts
    Coinbase, GenesisBalance, GasLimit, TxGas, TicketPrice, Reward, Tx, Pools, MaxHeight

VARIABLES
    stage, parent, chain, height, cur, pool, used, txs, touched, packed, header, clock

blockVars == <<stage, parent, chain, height, cur, pool, used, txs, touched, packed, header, clock>>

Execution == INSTANCE StateTransition WITH Address <- Holder, phase <- stage

ASSUME ExecutionAssumption == Execution!StateTransitionAssumption

-----------------------------------------------------------------------------
(* Properties *)

\* SupplyIsExact of StateTransition: gas, fees, refunds, values and calls that
\* fail half way only move FSN (TransitionDb, Finalize).
SupplyIsExact == Execution!SupplyIsExact

\* MinedIsAccepted of StateTransition: what the worker packs, an importer
\* accepts (commitTransactions, Process), except what the journal forgets.
MinedIsAccepted == Execution!MinedIsAccepted
=============================================================================
