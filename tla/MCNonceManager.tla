---- MODULE MCNonceManager ----
EXTENDS NonceManager

====
