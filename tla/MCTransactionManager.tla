------------------------ MODULE MCTransactionManager ------------------------
(* Small instances of TransactionManager for TLC. Every transaction has an  *)
(* owner process of its own, named like the transaction.                    *)
EXTENDS TransactionManager, TLC

OwnerSelf == [t \in Trid |-> t]
One == [r \in RM |-> 1]
Two == [r \in RM |-> 2]
OkOnly == {cXA_OK}
OpenAny == {cXA_OK, cXAER_RMERR}
PrepareAny == {cXA_OK, cXA_RDONLY, cXA_RBROLLBACK, cXAER_RMERR}
PrepareFails == {cXA_OK, cXA_RBROLLBACK, cXAER_RMERR}
CommitAny == {cXA_OK, cXA_RBROLLBACK, cXAER_RMFAIL}
Symmetry == Permutations(Trid) \cup Permutations(RM)
=============================================================================
