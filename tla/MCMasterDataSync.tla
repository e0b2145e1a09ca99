--------------------------- MODULE MCMasterDataSync ---------------------------
EXTENDS MasterDataSync

CONSTANTS d1, c, p

Categories == (c :> None) @@ (p :> c)

===============================================================================
