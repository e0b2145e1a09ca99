------------------------------ MODULE MCStockSync ------------------------------
EXTENDS StockSync

CONSTANTS d1, d2

SomeDeltas == {-1, 0}

===============================================================================
