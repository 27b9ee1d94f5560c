------------------------------ MODULE MCEntryRisk ------------------------------
EXTENDS EntryRisk

Quote(bid, spread) == [bid |-> bid, spread |-> spread]
Setup(d, entry, stop, target) == [dir |-> d, entry |-> entry, stop |-> stop, target |-> target]

\* Around the entries at 50; a jump to either side of a stop and a spread too wide.
QuotesTried == {Quote(49, 1), Quote(52, 1), Quote(54, 1), Quote(58, 1), Quote(43, 1), Quote(49, 3)}

\* A stop to be hardened, one far enough, one the wrong way round, and a sale.
SetupsTried == {Setup(1, 50, 47, 62), Setup(1, 50, 44, 80), Setup(1, 50, 52, 80), Setup(-1, -50, -54, -32)}
BudgetsTried == {6, 10, 24}
RangesTried == {2, 7}
===============================================================================
