------------------------------ MODULE MCTxSend ------------------------------
\* Two goroutines, on one chain or on two, and two keys; on one chain the default
\* key comes and goes, and its name may get another account.
EXTENDS TxSend, TLC

MCVolatile == {<<CHOOSE c \in Clients : TRUE, DefaultKey>>}
=============================================================================
